---- MODULE Spec2Model ----
(***************************************************************************)
(* dataclassish: field access, flat replace and recursive (nested) replace *)
(* over records (dataclass instances) and mappings, resolved by argument   *)
(* shape.                                                                  *)
(*                                                                         *)
(* Python objects live on a heap of cells; a value is an immutable scalar, *)
(* a reference to a cell, or a leaf wrapper F(value).  Every operation     *)
(* takes the heap and returns the heap it leaves behind, so that building  *)
(* a new container and updating one in place are different outcomes.       *)
(* Records follow the dispatches registered for Python < 3.13              *)
(* (register_dataclass.py).                                                *)
(***************************************************************************)
EXTENDS Integers, Sequences, FiniteSets, TLC

VARIABLES heap, pre, orig, x, last, steps

vars == <<heap, pre, orig, x, last, steps>>

(***************************************************************************)
(* Bounds of the model.                                                    *)
(***************************************************************************)
\* how many times the caller rebinds its value to the result of a flat replace
MaxOps == 1
\* how many single-entry mappings may be wrapped around a nested_changes
MaxNest == 1

(***************************************************************************)
(* Values.                                                                 *)
(***************************************************************************)
IntV(n) == [int |-> n]
Ref(i) == [ref |-> i]
NoVal == [none |-> TRUE]

IsInt(v) == "int" \in DOMAIN v
IsRef(v) == "ref" \in DOMAIN v

\* F(value): the frozen single-field leaf wrapper
F(value) == [wrap |-> value]

\* isinstance(v, F)
IsF(v) == "wrap" \in DOMAIN v

\* a mapping key; "#1" stands for the integer key 1, a hashable that is not a str
NonStrKeys == {"#1"}
IsStr(k) == k \notin NonStrKeys

\* cells: a mapping (kind "dict", of concrete type cls) or a record (kind "rec")
Cell(kind, cls, items) == [kind |-> kind, cls |-> cls, items |-> items]

\* isinstance(v, Mapping)
IsMapping(h, v) == IsRef(v) /\ h[v.ref].kind = "dict"

\* isinstance(v, DataclassInstance)
IsDataclass(h, v) == IsRef(v) /\ h[v.ref].kind = "rec"

Items(h, v) == h[v.ref].items
KeySeq(items) == [i \in 1..Len(items) |-> items[i][1]]
KeySet(items) == {items[i][1] : i \in 1..Len(items)}
\* the value stored under key k (k is present)
Lookup(items, k) == items[CHOOSE i \in 1..Len(items) : items[i][1] = k][2]

\* dict semantics of {**items, k: v}: overwrite in place, or append a new key
Put(items, k, v) ==
  IF k \in KeySet(items)
  THEN [i \in 1..Len(items) |-> IF items[i][1] = k THEN <<k, v>> ELSE items[i]]
  ELSE Append(items, <<k, v>>)

RECURSIVE Merge(_, _)
\* dict semantics of {**a, **b} and of dict(a) | b
Merge(a, b) ==
  IF b = <<>> THEN a ELSE Merge(Put(a, b[1][1], b[1][2]), Tail(b))

(***************************************************************************)
(* Python equality: structural, ignoring identity, the order of a dict's   *)
(* keys and the concrete dict type; a record equals only a record of its   *)
(* class.                                                                  *)
(***************************************************************************)
RECURSIVE Deep(_, _)
Deep(h, v) ==
  IF IsRef(v)
  THEN LET c == h[v.ref] IN
       [kind |-> c.kind,
        cls  |-> IF c.kind = "dict" THEN "dict" ELSE c.cls,
        m    |-> [k \in KeySet(c.items) |-> Deep(h, Lookup(c.items, k))]]
  ELSE IF IsF(v) THEN [wrap |-> Deep(h, v.wrap)]
  ELSE v

PyEq(h, v, w) == Deep(h, v) = Deep(h, w)

(***************************************************************************)
(* Literals: the data the caller writes down, and their allocation.        *)
(***************************************************************************)
LInt(n) == [int |-> n]
LF(l) == [wrap |-> l]
LDict(cls, items) == [lit |-> "dict", cls |-> cls, items |-> items]
LRec(a, b) == [lit |-> "rec", cls |-> "AB", items |-> <<<<"a", a>>, <<"b", b>>>>]
\* an instance of a record class that declares fields a and b: "AB" shows both
\* in its repr, "AH" declares b with field(repr=False), "HH" both
LRecOf(cls, a, b) == [LRec(a, b) EXCEPT !.cls = cls]

RECURSIVE Alloc(_, _), AllocItems(_, _, _)
\* build literal l on heap h: [h |-> the new heap, val |-> the value built]
Alloc(h, l) ==
  IF "lit" \in DOMAIN l
  THEN LET r == AllocItems(h, l.items, <<>>) IN
       [h   |-> Append(r.h, Cell(l.lit, l.cls, r.items)),
        val |-> Ref(Len(r.h) + 1)]
  ELSE IF "wrap" \in DOMAIN l
  THEN LET r == Alloc(h, l.wrap) IN [h |-> r.h, val |-> F(r.val)]
  ELSE [h |-> h, val |-> l]

AllocItems(h, lits, acc) ==
  IF lits = <<>> THEN [h |-> h, items |-> acc]
  ELSE LET r == Alloc(h, lits[1][2]) IN
       AllocItems(r.h, Tail(lits), Append(acc, <<lits[1][1], r.val>>))

\* item sequences with at most two entries, distinct keys from ks, values from vs
ItemSeqs1(ks, vs) == {<<>>} \cup {<<<<k, v>>>> : k \in ks, v \in vs}
ItemSeqs2(ks, vs) ==
  ItemSeqs1(ks, vs) \cup
  {<<<<p[1], v>>, <<p[2], w>>>> : p \in {q \in ks \X ks : q[1] # q[2]}, v \in vs, w \in vs}

(***************************************************************************)
(* Outcomes.  ok: the call returned val; otherwise it raised err.  bad is  *)
(* the key set an invalid-keys error reports, calls the recursive replace  *)
(* calls made (each with the path of the entry that made it), fail the     *)
(* path of the entry whose resolution raised, kw the resolved kwargs of a  *)
(* comprehension, msg the parts of the message of the exception raised.    *)
(***************************************************************************)
Ok(h, val, calls) ==
  [h |-> h, ok |-> TRUE, val |-> val, err |-> "none", bad |-> {},
   calls |-> calls, fail |-> <<>>, kw |-> <<>>, msg |-> <<>>]

Raise(h, err, bad, calls, fail) ==
  [h |-> h, ok |-> FALSE, val |-> NoVal, err |-> err, bad |-> bad,
   calls |-> calls, fail |-> fail, kw |-> <<>>, msg |-> <<>>]

\* raise err(msg)
RaiseMsg(h, err, bad, msg) ==
  [Raise(h, err, bad, <<>>, <<>>) EXCEPT !.msg = msg]

\* type(obj)(**d): keywords must be strings; builds a new container
construct(h, kind, cls, d) ==
  IF \E k \in KeySet(d) : ~IsStr(k)
  THEN Raise(h, "TypeError", {}, <<>>, <<>>)
  ELSE Ok(Append(h, Cell(kind, cls, d)), Ref(Len(h) + 1), <<>>)

\* whether the dispatcher accepts v for a parameter annotated Mapping[str, Any]:
\* a mapping whose first key, if any, is a str
BearableStrMapping(h, v) ==
  IsMapping(h, v) /\ (Items(h, v) = <<>> \/ IsStr(Items(h, v)[1][1]))

(***************************************************************************)
(* get_field                                                               *)
(***************************************************************************)
\* mutant: obj.get(k), which answers None for a key that is absent
mapping_get_field_default(h, obj, k) ==
  IF k \in KeySet(Items(h, obj))
  THEN Ok(h, Lookup(Items(h, obj), k), <<>>)
  ELSE Ok(h, NoVal, <<>>)

\* get_field(obj: Mapping[Hashable, Any], k): obj[k]
mapping_get_field(h, obj, k) ==
  IF k \in KeySet(Items(h, obj))
  THEN Ok(h, Lookup(Items(h, obj), k), <<>>)
  ELSE Raise(h, "KeyError", {}, <<>>, <<>>)

\* get_field(obj: DataclassInstance, k: str): getattr(obj, k)
dataclass_get_field(h, obj, k) ==
  IF k \in KeySet(Items(h, obj))
  THEN Ok(h, Lookup(Items(h, obj), k), <<>>)
  ELSE Raise(h, "AttributeError", {}, <<>>, <<>>)

\* get_field(obj: Any, k: str): getattr(obj, k); a scalar has no such attribute
base_get_field(h, obj, k) == Raise(h, "AttributeError", {}, <<>>, <<>>)

\* mutant: a str name goes to the getattr implementations, also for a mapping
get_field_strfirst(h, obj, k) ==
  IF IsStr(k)
  THEN IF IsDataclass(h, obj) THEN dataclass_get_field(h, obj, k)
       ELSE base_get_field(h, obj, k)
  ELSE IF IsMapping(h, obj) THEN mapping_get_field(h, obj, k)
  ELSE Raise(h, "NotFoundLookupError", {}, <<>>, <<>>)

\* the dispatcher: mapping (precedence 1), then record, then the Any fallback
get_field(h, obj, k) ==
  IF IsMapping(h, obj) THEN mapping_get_field(h, obj, k)
  ELSE IF ~IsStr(k) THEN Raise(h, "NotFoundLookupError", {}, <<>>, <<>>)
  ELSE IF IsDataclass(h, obj) THEN dataclass_get_field(h, obj, k)
  ELSE base_get_field(h, obj, k)

(***************************************************************************)
(* Flat replace                                                            *)
(***************************************************************************)
\* mutant: the error names only one of the invalid keys
mapping_replace_first(h, obj, kwargs) ==
  LET extra_keys == KeySet(kwargs) \ KeySet(Items(h, obj)) IN
  IF extra_keys # {}
  THEN Raise(h, "ValueError", {CHOOSE k \in extra_keys : TRUE}, <<>>, <<>>)
  ELSE construct(h, "dict", h[obj.ref].cls, Merge(Items(h, obj), kwargs))

\* mutant: obj.update(kwargs); return obj
mapping_replace_inplace(h, obj, kwargs) ==
  LET extra_keys == KeySet(kwargs) \ KeySet(Items(h, obj)) IN
  IF extra_keys # {}
  THEN Raise(h, "ValueError", extra_keys, <<>>, <<>>)
  ELSE Ok([h EXCEPT ![obj.ref].items = Merge(Items(h, obj), kwargs)], obj, <<>>)

\* mutant: the result keeps the untouched keys and forgets the changed ones
mapping_replace_dropchanged(h, obj, kwargs) ==
  LET extra_keys == KeySet(kwargs) \ KeySet(Items(h, obj))
      Untouched(it) == it[1] \notin KeySet(kwargs)
  IN
  IF extra_keys # {}
  THEN Raise(h, "ValueError", extra_keys, <<>>, <<>>)
  ELSE construct(h, "dict", h[obj.ref].cls, SelectSeq(Items(h, obj), Untouched))

\* mutant: dict(...) instead of type(obj)(...)
mapping_replace_plaindict(h, obj, kwargs) ==
  LET extra_keys == KeySet(kwargs) \ KeySet(Items(h, obj)) IN
  IF extra_keys # {}
  THEN Raise(h, "ValueError", extra_keys, <<>>, <<>>)
  ELSE construct(h, "dict", "dict", Merge(Items(h, obj), kwargs))

\* replace(obj: Mapping[str, Any], /, **kwargs)
mapping_replace(h, obj, kwargs) ==
  LET extra_keys == KeySet(kwargs) \ KeySet(Items(h, obj)) IN
  IF extra_keys # {}
  THEN Raise(h, "ValueError", extra_keys, <<>>, <<>>)
  ELSE construct(h, "dict", h[obj.ref].cls, Merge(Items(h, obj), kwargs))

\* replace(obj: DataclassInstance, /, **kwargs): dataclasses.replace
dataclass_replace(h, obj, kwargs) ==
  IF KeySet(kwargs) \ KeySet(Items(h, obj)) # {}
  THEN Raise(h, "TypeError", {}, <<>>, <<>>)
  ELSE construct(h, "rec", h[obj.ref].cls, Merge(Items(h, obj), kwargs))

\* the dispatcher for replace(obj, **kwargs)
replace(h, obj, kwargs) ==
  IF IsDataclass(h, obj) THEN dataclass_replace(h, obj, kwargs)
  ELSE IF BearableStrMapping(h, obj) THEN mapping_replace(h, obj, kwargs)
  ELSE Raise(h, "NotFoundLookupError", {}, <<>>, <<>>)

(***************************************************************************)
(* Recursive replace                                                       *)
(***************************************************************************)
RECURSIVE replace_fs(_, _, _, _)
RECURSIVE resolve(_, _, _, _, _, _)

\* mutant: a mapping-shaped value is stored as it is, without a merge
recursive_replace_mapping_helper_nomerge(h, obj, k, v, path) ==
  IF IsF(v) THEN Ok(h, v.wrap, <<>>)
  ELSE Ok(h, v, <<>>)

\* _recursive_replace_mapping_helper(obj, k, v)
recursive_replace_mapping_helper(h, obj, k, v, path) ==
  IF IsF(v) THEN Ok(h, v.wrap, <<>>)
  ELSE IF IsMapping(h, v)
  THEN LET g == get_field(h, obj, k) IN
       IF ~g.ok THEN Raise(h, g.err, {}, <<>>, Append(path, k))
       ELSE LET r == replace_fs(h, g.val, v, Append(path, k))
                c == [path |-> Append(path, k), obj |-> g.val, fs |-> v]
            IN [r EXCEPT !.calls = <<c>> \o r.calls]
  ELSE Ok(h, v, <<>>)

\* mutant: the wrapper is taken off before the mapping test, so that a wrapped
\* mapping is merged like an unwrapped one
recursive_replace_helper_unwrapfirst(h, obj, k, v, path) ==
  LET w == IF IsF(v) THEN v.wrap ELSE v IN
  IF IsMapping(h, w)
  THEN LET g == get_field(h, obj, k) IN
       IF ~g.ok THEN Raise(h, g.err, {}, <<>>, Append(path, k))
       ELSE LET r == replace_fs(h, g.val, w, Append(path, k))
                c == [path |-> Append(path, k), obj |-> g.val, fs |-> w]
            IN [r EXCEPT !.calls = <<c>> \o r.calls]
  ELSE Ok(h, w, <<>>)

\* mutant: the replace of a mapping-shaped entry is made twice
recursive_replace_helper_twice(h, obj, k, v, path) ==
  IF IsF(v) THEN Ok(h, v.wrap, <<>>)
  ELSE IF IsMapping(h, v)
  THEN LET g == get_field(h, obj, k) IN
       IF ~g.ok THEN Raise(h, g.err, {}, <<>>, Append(path, k))
       ELSE LET r == replace_fs(h, g.val, v, Append(path, k))
                c == [path |-> Append(path, k), obj |-> g.val, fs |-> v]
            IN [r EXCEPT !.calls = <<c, c>> \o r.calls]
  ELSE Ok(h, v, <<>>)

\* _recursive_replace_helper(obj, k, v)
recursive_replace_helper(h, obj, k, v, path) ==
  IF IsF(v) THEN Ok(h, v.wrap, <<>>)
  ELSE IF IsMapping(h, v)
  THEN LET g == get_field(h, obj, k) IN
       IF ~g.ok THEN Raise(h, g.err, {}, <<>>, Append(path, k))
       ELSE LET r == replace_fs(h, g.val, v, Append(path, k))
                c == [path |-> Append(path, k), obj |-> g.val, fs |-> v]
            IN [r EXCEPT !.calls = <<c>> \o r.calls]
  ELSE Ok(h, v, <<>>)

\* mutant: the first entry alone is resolved
resolve_first(h, obj, ents, path, kwargs, calls) ==
  IF ents = <<>> THEN [Ok(h, NoVal, calls) EXCEPT !.kw = kwargs]
  ELSE LET r == IF IsMapping(h, obj)
                THEN recursive_replace_mapping_helper(h, obj, ents[1][1], ents[1][2], path)
                ELSE recursive_replace_helper(h, obj, ents[1][1], ents[1][2], path)
       IN IF ~r.ok THEN [r EXCEPT !.calls = calls \o r.calls]
          ELSE [Ok(r.h, NoVal, calls \o r.calls)
                  EXCEPT !.kw = Put(kwargs, ents[1][1], r.val)]

\* kwargs = {k: helper(obj, k, v) for k, v in fs.items()}: entries are resolved
\* in iteration order and the first one to raise ends the comprehension
resolve(h, obj, ents, path, kwargs, calls) ==
  IF ents = <<>> THEN [Ok(h, NoVal, calls) EXCEPT !.kw = kwargs]
  ELSE LET r == IF IsMapping(h, obj)
                THEN recursive_replace_mapping_helper(h, obj, ents[1][1], ents[1][2], path)
                ELSE recursive_replace_helper(h, obj, ents[1][1], ents[1][2], path)
       IN IF ~r.ok THEN [r EXCEPT !.calls = calls \o r.calls]
          ELSE resolve(r.h, obj, Tail(ents), path,
                       Put(kwargs, ents[1][1], r.val), calls \o r.calls)

\* replace(obj: Mapping[Hashable, Any], fs: Mapping[str, Any], /)
mapping_replace_fs(h, obj, fs, path) ==
  LET r == resolve(h, obj, Items(h, fs), path, <<>>, <<>>) IN
  IF ~r.ok THEN r
  ELSE LET c == construct(r.h, "dict", h[obj.ref].cls, Merge(Items(h, obj), r.kw))
       IN IF c.ok THEN [c EXCEPT !.calls = r.calls]
          ELSE [c EXCEPT !.calls = r.calls, !.fail = path]

\* replace(obj: DataclassInstance, fs: Mapping[str, Any], /)
dataclass_replace_fs(h, obj, fs, path) ==
  LET r == resolve(h, obj, Items(h, fs), path, <<>>, <<>>) IN
  IF ~r.ok THEN r
  ELSE LET c == replace(r.h, obj, r.kw)
       IN IF c.ok THEN [c EXCEPT !.calls = r.calls]
          ELSE [c EXCEPT !.calls = r.calls, !.fail = path]

\* mutant: a fallback for any obj, which takes the mapping as the new value
replace_fs_anyobj(h, obj, fs, path) ==
  IF ~BearableStrMapping(h, fs) THEN Raise(h, "NotFoundLookupError", {}, <<>>, path)
  ELSE IF IsDataclass(h, obj) THEN dataclass_replace_fs(h, obj, fs, path)
  ELSE IF IsMapping(h, obj) THEN mapping_replace_fs(h, obj, fs, path)
  ELSE Ok(h, fs, <<>>)

\* the dispatcher for replace(obj, fs)
replace_fs(h, obj, fs, path) ==
  IF ~BearableStrMapping(h, fs) THEN Raise(h, "NotFoundLookupError", {}, <<>>, path)
  ELSE IF IsDataclass(h, obj) THEN dataclass_replace_fs(h, obj, fs, path)
  ELSE IF IsMapping(h, obj) THEN mapping_replace_fs(h, obj, fs, path)
  ELSE Raise(h, "NotFoundLookupError", {}, <<>>, path)

(***************************************************************************)
(* Accessors.  A tuple or a view is the immutable value [tup |-> seq].     *)
(***************************************************************************)
Tup(seq) == [tup |-> seq]

\* type(v)
TypeOf(h, v) ==
  IF IsRef(v) THEN h[v.ref].cls ELSE IF IsF(v) THEN "F" ELSE "int"

\* a dataclasses.Field descriptor
Field(name, type, repr) == [name |-> name, type |-> type, repr |-> repr]

\* mutant: the descriptors come out in reverse iteration order
mapping_fields_reversed(h, obj) ==
  LET its == Items(h, obj) IN
  Tup([i \in 1..Len(its) |->
         Field(its[Len(its) + 1 - i][1], TypeOf(h, its[Len(its) + 1 - i][2]), TRUE)])

\* fields(obj: Mapping[str, Any]): one descriptor per key, in iteration order
mapping_fields(h, obj) ==
  LET its == Items(h, obj) IN
  Tup([i \in 1..Len(its) |-> Field(its[i][1], TypeOf(h, its[i][2]), TRUE)])

\* the repr flag that record class cls declares for its field name
ReprOf(cls, name) ==
  /\ ~(cls = "AH" /\ name = "b")
  /\ cls # "HH"

\* fields(obj: DataclassInstance): dataclasses.fields
dataclass_fields(h, obj) ==
  LET its == Items(h, obj) IN
  Tup([i \in 1..Len(its) |->
         Field(its[i][1], "Any", ReprOf(h[obj.ref].cls, its[i][1]))])

\* the dispatcher for fields(obj)
fields(h, obj) ==
  IF IsDataclass(h, obj) THEN Ok(h, dataclass_fields(h, obj), <<>>)
  ELSE IF BearableStrMapping(h, obj) THEN Ok(h, mapping_fields(h, obj), <<>>)
  ELSE Raise(h, "NotFoundLookupError", {}, <<>>, <<>>)

\* field_keys(obj: Mapping[Hashable, Any]): obj.keys()
mapping_field_keys(h, obj) == Tup(KeySeq(Items(h, obj)))

\* field_values(obj: Mapping[Any, Any]): obj.values()
mapping_field_values(h, obj) ==
  Tup([i \in 1..Len(Items(h, obj)) |-> Items(h, obj)[i][2]])

\* field_items(obj: Mapping[Any, Any]): obj.items()
mapping_field_items(h, obj) == Tup(Items(h, obj))

\* field_keys(obj: Any): tuple(f.name for f in fields(obj))
base_field_keys(h, obj) ==
  LET fs == fields(h, obj) IN
  IF ~fs.ok THEN fs
  ELSE Ok(h, Tup([i \in 1..Len(fs.val.tup) |-> fs.val.tup[i].name]), <<>>)

\* field_values(obj: Any): tuple(getattr(obj, f.name) for f in fields(obj))
base_field_values(h, obj) ==
  LET fs == fields(h, obj) IN
  IF ~fs.ok THEN fs
  ELSE Ok(h, Tup([i \in 1..Len(fs.val.tup) |->
                    Lookup(Items(h, obj), fs.val.tup[i].name)]), <<>>)

\* field_items(obj: Any): tuple((f.name, getattr(obj, f.name)) for f in fields(obj))
base_field_items(h, obj) ==
  LET fs == fields(h, obj) IN
  IF ~fs.ok THEN fs
  ELSE Ok(h, Tup([i \in 1..Len(fs.val.tup) |->
                    <<fs.val.tup[i].name,
                      Lookup(Items(h, obj), fs.val.tup[i].name)>>]), <<>>)

\* the dispatchers: the mapping implementation is more specific than Any
field_keys(h, obj) ==
  IF IsMapping(h, obj) THEN Ok(h, mapping_field_keys(h, obj), <<>>)
  ELSE base_field_keys(h, obj)

field_values(h, obj) ==
  IF IsMapping(h, obj) THEN Ok(h, mapping_field_values(h, obj), <<>>)
  ELSE base_field_values(h, obj)

field_items(h, obj) ==
  IF IsMapping(h, obj) THEN Ok(h, mapping_field_items(h, obj), <<>>)
  ELSE base_field_items(h, obj)

\* the container factories a caller injects: the dict type (the default), a
\* dict subclass, and a factory that hands back its argument
DictFactories == {"dict", "MyDict", "identity"}

\* dict_factory(arg), arg a mapping of the heap or a list of (key, value) pairs
call_dict_factory(h, dict_factory, arg) ==
  IF dict_factory = "identity" THEN [h |-> h, val |-> arg]
  ELSE [h   |-> Append(h, Cell("dict", dict_factory,
                               IF IsRef(arg) THEN Items(h, arg) ELSE arg.tup)),
        val |-> Ref(Len(h) + 1)]

\* mutant: a mapping that already is an instance of dict_factory is returned as is
mapping_asdict_keep(h, obj, dict_factory) ==
  IF h[obj.ref].cls = dict_factory \/ dict_factory = "identity"
  THEN Ok(h, obj, <<>>)
  ELSE LET r == call_dict_factory(h, dict_factory, obj) IN Ok(r.h, r.val, <<>>)

\* asdict(obj: Mapping[Hashable, Any], dict_factory=dict): dict_factory(obj)
mapping_asdict(h, obj, dict_factory) ==
  LET r == call_dict_factory(h, dict_factory, obj) IN Ok(r.h, r.val, <<>>)

RECURSIVE asdict_inner(_, _, _), asdict_inner_items(_, _, _, _)
\* dataclasses.asdict: records become dict_factory(list of pairs), at every
\* depth; dicts are rebuilt with their own type; anything else is copied
asdict_inner(h, v, dict_factory) ==
  IF IsRef(v)
  THEN LET r == asdict_inner_items(h, Items(h, v), <<>>, dict_factory) IN
       IF h[v.ref].kind = "rec"
       THEN call_dict_factory(r.h, dict_factory, Tup(r.items))
       ELSE [h   |-> Append(r.h, Cell("dict", h[v.ref].cls, r.items)),
             val |-> Ref(Len(r.h) + 1)]
  ELSE [h |-> h, val |-> v]

asdict_inner_items(h, its, acc, dict_factory) ==
  IF its = <<>> THEN [h |-> h, items |-> acc]
  ELSE LET r == asdict_inner(h, its[1][2], dict_factory) IN
       asdict_inner_items(r.h, Tail(its), Append(acc, <<its[1][1], r.val>>),
                          dict_factory)

\* asdict(obj: DataclassInstance, dict_factory=dict)
dataclass_asdict(h, obj, dict_factory) ==
  LET r == asdict_inner(h, obj, dict_factory) IN Ok(r.h, r.val, <<>>)

\* the dispatcher for asdict(obj, dict_factory=...)
asdict(h, obj, dict_factory) ==
  IF IsDataclass(h, obj) THEN dataclass_asdict(h, obj, dict_factory)
  ELSE IF IsMapping(h, obj) THEN mapping_asdict(h, obj, dict_factory)
  ELSE Raise(h, "NotFoundLookupError", {}, <<>>, <<>>)

\* astuple(obj: Mapping[str, Any], tuple_factory=tuple): tuple(obj.values())
mapping_astuple(h, obj) == mapping_field_values(h, obj)

RECURSIVE astuple_inner(_, _), astuple_inner_items(_, _, _)
\* dataclasses.astuple: records become tuples, at every depth; dicts are rebuilt
astuple_inner(h, v) ==
  IF IsDataclass(h, v)
  THEN LET r == astuple_inner_items(h, Items(h, v), <<>>) IN
       [h |-> r.h, val |-> Tup([i \in 1..Len(r.items) |-> r.items[i][2]])]
  ELSE IF IsMapping(h, v)
  THEN LET r == astuple_inner_items(h, Items(h, v), <<>>) IN
       [h   |-> Append(r.h, Cell("dict", h[v.ref].cls, r.items)),
        val |-> Ref(Len(r.h) + 1)]
  ELSE [h |-> h, val |-> v]

astuple_inner_items(h, its, acc) ==
  IF its = <<>> THEN [h |-> h, items |-> acc]
  ELSE LET r == astuple_inner(h, its[1][2]) IN
       astuple_inner_items(r.h, Tail(its), Append(acc, <<its[1][1], r.val>>))

\* astuple(obj: DataclassInstance, tuple_factory=tuple)
dataclass_astuple(h, obj) ==
  LET r == astuple_inner(h, obj) IN Ok(r.h, r.val, <<>>)

\* the dispatcher for astuple(obj)
astuple(h, obj) ==
  IF IsDataclass(h, obj) THEN dataclass_astuple(h, obj)
  ELSE IF BearableStrMapping(h, obj) THEN Ok(h, mapping_astuple(h, obj), <<>>)
  ELSE Raise(h, "NotFoundLookupError", {}, <<>>, <<>>)

(***************************************************************************)
(* Flags: marker classes passed as the leading argument of an operation.   *)
(***************************************************************************)
AbstractFlag == "AbstractFlag"
NoFlag == "NoFlag"
FilterRepr == "FilterRepr"
\* a flag of the caller's own, class MyFlag(AbstractFlag), with no
\* implementation registered for it
MyFlag == "MyFlag"
Flags == {AbstractFlag, NoFlag, FilterRepr, MyFlag}

\* issubclass(flag, base)
IsSubclass(flag, base) == flag = base \/ base = AbstractFlag

\* FlagConstructionError(flag_type): the message of the exception
FlagConstructionError(flag_type) == <<flag_type, " flag cannot be constructed.">>

\* mutant: the message names the base class, whatever class is constructed
AbstractFlag_new_base(h, cls, args) ==
  RaiseMsg(h, "FlagConstructionError", {}, FlagConstructionError(AbstractFlag))

\* AbstractFlag.__new__(cls, *_, **__), inherited by every subclass
AbstractFlag_new(h, cls, args) ==
  RaiseMsg(h, "FlagConstructionError", {}, FlagConstructionError(cls.__name__))

UsageMsg == <<"Do not use the AbstractFlag directly, only use subclasses.">>

\* replace(flag: type[AbstractFlag], _, /, **__)
abstractflag_replace(h, obj, kwargs) == RaiseMsg(h, "ValueError", {}, UsageMsg)
\* fields(flag: type[AbstractFlag], _, /)
abstractflag_fields(h, obj) == RaiseMsg(h, "ValueError", {}, UsageMsg)
\* asdict(flag: type[AbstractFlag], _, /, *, dict_factory=dict)
abstractflag_asdict(h, obj, dict_factory) == RaiseMsg(h, "ValueError", {}, UsageMsg)
\* astuple(flag: type[AbstractFlag], _, /, *, tuple_factory=tuple)
abstractflag_astuple(h, obj) == RaiseMsg(h, "ValueError", {}, UsageMsg)
\* field_keys(flag: type[AbstractFlag], _, /)
abstractflag_field_keys(h, obj) == RaiseMsg(h, "ValueError", {}, UsageMsg)
\* field_values(flag: type[AbstractFlag], _, /)
abstractflag_field_values(h, obj) == RaiseMsg(h, "ValueError", {}, UsageMsg)
\* field_items(flag: type[AbstractFlag], _, /)
abstractflag_field_items(h, obj) == RaiseMsg(h, "ValueError", {}, UsageMsg)

\* replace(flag: type[NoFlag], obj, /, **kwargs)
noflag_replace(h, obj, kwargs) == replace(h, obj, kwargs)
\* fields(flag: type[NoFlag], obj, /)
noflag_fields(h, obj) == fields(h, obj)
\* asdict(flag: type[NoFlag], obj, /, *, dict_factory=dict)
noflag_asdict(h, obj, dict_factory) == asdict(h, obj, dict_factory)
\* astuple(flag: type[NoFlag], obj, /, *, tuple_factory=tuple)
noflag_astuple(h, obj) == astuple(h, obj)
\* field_keys(flag: type[NoFlag], obj, /)
noflag_field_keys(h, obj) == field_keys(h, obj)
\* field_values(flag: type[NoFlag], obj, /)
noflag_field_values(h, obj) == field_values(h, obj)
\* field_items(flag: type[NoFlag], obj, /)
noflag_field_items(h, obj) == field_items(h, obj)

RECURSIVE Keep_hidden(_, _)
\* mutant: the condition is inverted, [e for e, f in zip(seq, fs) if not f.repr]
Keep_hidden(seq, fs) ==
  IF seq = <<>> THEN <<>>
  ELSE (IF fs[1].repr THEN <<>> ELSE <<seq[1]>>) \o Keep_hidden(Tail(seq), Tail(fs))

RECURSIVE Keep(_, _)
\* [e for e, f in zip(seq, fs) if f.repr]
Keep(seq, fs) ==
  IF seq = <<>> THEN <<>>
  ELSE (IF fs[1].repr THEN <<seq[1]>> ELSE <<>>) \o Keep(Tail(seq), Tail(fs))

\* [f.name for f in fs]
Names(fs) == [i \in 1..Len(fs) |-> fs[i].name]

\* zip(a, b, strict=True) of sequences of different lengths
ZipError(h) == Raise(h, "ValueError", {}, <<>>, <<>>)

\* mutant: the error names the first offending field only
filterrepr_replace_first(h, obj, kwargs) ==
  LET fs == fields(h, obj) IN
  IF ~fs.ok THEN fs
  ELSE LET InKwNotRepr(f) == f.name \in KeySet(kwargs) /\ ~f.repr
           fs_in_kw_but_repr == Names(SelectSeq(fs.val.tup, InKwNotRepr))
       IN IF fs_in_kw_but_repr # <<>>
          THEN RaiseMsg(h, "ValueError", {fs_in_kw_but_repr[1]},
                        <<"Fields ", fs_in_kw_but_repr[1],
                          " are in kwargs but are repr=False.">>)
          ELSE replace(h, obj, kwargs)

\* replace(_: type[FilterRepr], obj, /, **kwargs)
filterrepr_replace(h, obj, kwargs) ==
  LET fs == fields(h, obj) IN
  IF ~fs.ok THEN fs
  ELSE LET InKwNotRepr(f) == f.name \in KeySet(kwargs) /\ ~f.repr
           fs_in_kw_but_repr == Names(SelectSeq(fs.val.tup, InKwNotRepr))
       IN IF fs_in_kw_but_repr # <<>>
          THEN RaiseMsg(h, "ValueError",
                        {fs_in_kw_but_repr[i] : i \in 1..Len(fs_in_kw_but_repr)},
                        <<"Fields ">> \o fs_in_kw_but_repr
                          \o <<" are in kwargs but are repr=False.">>)
          ELSE replace(h, obj, kwargs)

\* fields(_: type[FilterRepr], obj)
filterrepr_fields(h, obj) ==
  LET fs == fields(h, obj) IN
  IF ~fs.ok THEN fs ELSE Ok(h, Tup(Keep(fs.val.tup, fs.val.tup)), <<>>)

\* mutant: the repr test comes too late, after the value has been returned
filterrepr_get_field_norepr(h, obj, field_name) ==
  LET fs == fields(h, obj) IN
  IF ~fs.ok THEN fs
  ELSE LET Named(f) == f.name = field_name
           f == SelectSeq(fs.val.tup, Named)
       IN IF f = <<>>
          THEN RaiseMsg(h, "ValueError", {}, <<"Field ", field_name, " not found.">>)
          ELSE get_field(h, obj, field_name)

\* get_field(_: type[FilterRepr], obj, field_name: str)
filterrepr_get_field(h, obj, field_name) ==
  LET fs == fields(h, obj) IN
  IF ~fs.ok THEN fs
  ELSE LET Named(f) == f.name = field_name
           f == SelectSeq(fs.val.tup, Named)
       IN IF f = <<>>
          THEN RaiseMsg(h, "ValueError", {}, <<"Field ", field_name, " not found.">>)
          ELSE IF ~f[1].repr
          THEN RaiseMsg(h, "ValueError", {}, <<"Field ", field_name, " is repr=False.">>)
          ELSE get_field(h, obj, field_name)

\* field_keys(_: type[FilterRepr], obj)
filterrepr_field_keys(h, obj) ==
  LET ks == field_keys(h, obj)
      fs == fields(h, obj)
  IN IF ~ks.ok THEN ks
     ELSE IF ~fs.ok THEN fs
     ELSE IF Len(ks.val.tup) # Len(fs.val.tup) THEN ZipError(h)
     ELSE Ok(h, Tup(Keep(ks.val.tup, fs.val.tup)), <<>>)

\* field_values(_: type[FilterRepr], obj)
filterrepr_field_values(h, obj) ==
  LET vs == field_values(h, obj)
      fs == fields(h, obj)
  IN IF ~vs.ok THEN vs
     ELSE IF ~fs.ok THEN fs
     ELSE IF Len(vs.val.tup) # Len(fs.val.tup) THEN ZipError(h)
     ELSE Ok(h, Tup(Keep(vs.val.tup, fs.val.tup)), <<>>)

\* field_items(_: type[FilterRepr], obj)
filterrepr_field_items(h, obj) ==
  LET its == field_items(h, obj)
      fs  == fields(h, obj)
  IN IF ~its.ok THEN its
     ELSE IF ~fs.ok THEN fs
     ELSE IF Len(its.val.tup) # Len(fs.val.tup) THEN ZipError(h)
     ELSE Ok(h, Tup(Keep(its.val.tup, fs.val.tup)), <<>>)

\* the dispatcher for field_keys(flag, obj)
field_keys_flag(h, flag, obj) ==
  IF IsSubclass(flag, NoFlag) THEN noflag_field_keys(h, obj)
  ELSE IF IsSubclass(flag, FilterRepr) THEN filterrepr_field_keys(h, obj)
  ELSE abstractflag_field_keys(h, obj)

\* the dispatcher for field_values(flag, obj)
field_values_flag(h, flag, obj) ==
  IF IsSubclass(flag, NoFlag) THEN noflag_field_values(h, obj)
  ELSE IF IsSubclass(flag, FilterRepr) THEN filterrepr_field_values(h, obj)
  ELSE abstractflag_field_values(h, obj)

\* the dispatcher for field_items(flag, obj)
field_items_flag(h, flag, obj) ==
  IF IsSubclass(flag, NoFlag) THEN noflag_field_items(h, obj)
  ELSE IF IsSubclass(flag, FilterRepr) THEN filterrepr_field_items(h, obj)
  ELSE abstractflag_field_items(h, obj)

\* asdict(flag: type[FilterRepr], obj, /, *, dict_factory=dict)
filterrepr_asdict(h, flag, obj, dict_factory) ==
  LET all_dict == asdict(h, obj, "dict") IN
  IF ~all_dict.ok THEN all_dict
  ELSE LET keep_keys == field_keys_flag(all_dict.h, flag, obj) IN
       IF ~keep_keys.ok THEN keep_keys
       ELSE LET ks == keep_keys.val.tup
                r  == call_dict_factory(
                        all_dict.h, dict_factory,
                        Tup([i \in 1..Len(ks) |->
                               <<ks[i], Lookup(Items(all_dict.h, all_dict.val), ks[i])>>]))
            IN Ok(r.h, r.val, <<>>)

\* astuple(_: type[FilterRepr], obj, /, *, tuple_factory=tuple)
filterrepr_astuple(h, obj) ==
  LET tup == astuple(h, obj) IN
  IF ~tup.ok THEN tup
  ELSE LET fs == fields(tup.h, obj) IN
       IF ~fs.ok THEN fs
       ELSE IF Len(tup.val.tup) # Len(fs.val.tup) THEN ZipError(tup.h)
       ELSE Ok(tup.h, Tup(Keep(tup.val.tup, fs.val.tup)), <<>>)

\* the dispatcher for replace(flag, obj, **kwargs)
replace_flag(h, flag, obj, kwargs) ==
  IF IsSubclass(flag, NoFlag) THEN noflag_replace(h, obj, kwargs)
  ELSE IF IsSubclass(flag, FilterRepr) THEN filterrepr_replace(h, obj, kwargs)
  ELSE abstractflag_replace(h, obj, kwargs)

\* the dispatcher for replace(flag, obj, fs): no implementation takes a flag and
\* two more positional arguments
replace_fs_flag(h, flag, obj, fs) == Raise(h, "NotFoundLookupError", {}, <<>>, <<>>)

\* mutant: type[AbstractFlag] accepts the class AbstractFlag alone
fields_flag_exact(h, flag, obj) ==
  IF IsSubclass(flag, NoFlag) THEN noflag_fields(h, obj)
  ELSE IF IsSubclass(flag, FilterRepr) THEN filterrepr_fields(h, obj)
  ELSE IF flag = AbstractFlag THEN abstractflag_fields(h, obj)
  ELSE Raise(h, "NotFoundLookupError", {}, <<>>, <<>>)

\* the dispatcher for fields(flag, obj)
fields_flag(h, flag, obj) ==
  IF IsSubclass(flag, NoFlag) THEN noflag_fields(h, obj)
  ELSE IF IsSubclass(flag, FilterRepr) THEN filterrepr_fields(h, obj)
  ELSE abstractflag_fields(h, obj)

\* the dispatcher for get_field(flag, obj, k): the one implementation that takes
\* a flag is the FilterRepr one, for a str name
get_field_flag(h, flag, obj, k) ==
  IF IsSubclass(flag, FilterRepr) /\ IsStr(k) THEN filterrepr_get_field(h, obj, k)
  ELSE Raise(h, "NotFoundLookupError", {}, <<>>, <<>>)

\* the dispatcher for asdict(flag, obj, dict_factory=...)
asdict_flag(h, flag, obj, dict_factory) ==
  IF IsSubclass(flag, NoFlag) THEN noflag_asdict(h, obj, dict_factory)
  ELSE IF IsSubclass(flag, FilterRepr) THEN filterrepr_asdict(h, flag, obj, dict_factory)
  ELSE abstractflag_asdict(h, obj, dict_factory)

\* the dispatcher for astuple(flag, obj)
astuple_flag(h, flag, obj) ==
  IF IsSubclass(flag, NoFlag) THEN noflag_astuple(h, obj)
  ELSE IF IsSubclass(flag, FilterRepr) THEN filterrepr_astuple(h, obj)
  ELSE abstractflag_astuple(h, obj)

(***************************************************************************)
(* The dispatch registry: the implementations registered with @dispatch,   *)
(* each with the annotations of its positional parameters and its          *)
(* precedence, and the rule that picks one for the arguments of a call.    *)
(***************************************************************************)
Method(fn, types, precedence, impl) ==
  [fn |-> fn, types |-> types, precedence |-> precedence, impl |-> impl]

\* the implementations register_base.py registers: the fallbacks for any object
register_base ==
  {Method("get_field", <<"Any", "str">>, 0, "base_get_field"),
   Method("field_keys", <<"Any">>, 0, "base_field_keys"),
   Method("field_values", <<"Any">>, 0, "base_field_values"),
   Method("field_items", <<"Any">>, 0, "base_field_items")}

\* ... register_dataclass.py: records (the get_field and replace of Python < 3.13)
register_dataclass ==
  {Method("get_field", <<"DataclassInstance", "str">>, 0, "dataclass_get_field"),
   Method("replace", <<"DataclassInstance">>, 0, "dataclass_replace"),
   Method("replace", <<"DataclassInstance", "Mapping[str, Any]">>, 0,
          "dataclass_replace_fs"),
   Method("fields", <<"DataclassInstance">>, 0, "dataclass_fields"),
   Method("asdict", <<"DataclassInstance">>, 0, "dataclass_asdict"),
   Method("astuple", <<"DataclassInstance">>, 0, "dataclass_astuple")}

\* ... register_mapping.py: mappings
register_mapping ==
  {Method("get_field", <<"Mapping[Hashable, Any]", "Hashable">>, 1, "mapping_get_field"),
   Method("replace", <<"Mapping[str, Any]">>, 0, "mapping_replace"),
   Method("replace", <<"Mapping[Hashable, Any]", "Mapping[str, Any]">>, 0,
          "mapping_replace_fs"),
   Method("fields", <<"Mapping[str, Any]">>, 0, "mapping_fields"),
   Method("asdict", <<"Mapping[Hashable, Any]">>, 0, "mapping_asdict"),
   Method("astuple", <<"Mapping[str, Any]">>, 0, "mapping_astuple"),
   Method("field_keys", <<"Mapping[Hashable, Any]">>, 0, "mapping_field_keys"),
   Method("field_values", <<"Mapping[Any, Any]">>, 0, "mapping_field_values"),
   Method("field_items", <<"Mapping[Any, Any]">>, 0, "mapping_field_items")}

\* ... flag_compat.py: the flag-qualified operations
flag_compat ==
  {Method("replace", <<"type[AbstractFlag]", "Any">>, 0, "abstractflag_replace"),
   Method("fields", <<"type[AbstractFlag]", "Any">>, 0, "abstractflag_fields"),
   Method("asdict", <<"type[AbstractFlag]", "Any">>, 0, "abstractflag_asdict"),
   Method("astuple", <<"type[AbstractFlag]", "Any">>, 0, "abstractflag_astuple"),
   Method("field_keys", <<"type[AbstractFlag]", "Any">>, 0, "abstractflag_field_keys"),
   Method("field_values", <<"type[AbstractFlag]", "Any">>, 0, "abstractflag_field_values"),
   Method("field_items", <<"type[AbstractFlag]", "Any">>, 0, "abstractflag_field_items"),
   Method("replace", <<"type[NoFlag]", "Any">>, 0, "noflag_replace"),
   Method("fields", <<"type[NoFlag]", "Any">>, 0, "noflag_fields"),
   Method("asdict", <<"type[NoFlag]", "Any">>, 0, "noflag_asdict"),
   Method("astuple", <<"type[NoFlag]", "Any">>, 0, "noflag_astuple"),
   Method("field_keys", <<"type[NoFlag]", "Any">>, 0, "noflag_field_keys"),
   Method("field_values", <<"type[NoFlag]", "Any">>, 0, "noflag_field_values"),
   Method("field_items", <<"type[NoFlag]", "Any">>, 0, "noflag_field_items"),
   Method("replace", <<"type[FilterRepr]", "Any">>, 0, "filterrepr_replace"),
   Method("fields", <<"type[FilterRepr]", "Any">>, 0, "filterrepr_fields"),
   Method("asdict", <<"type[FilterRepr]", "Any">>, 0, "filterrepr_asdict"),
   Method("astuple", <<"type[FilterRepr]", "Any">>, 0, "filterrepr_astuple"),
   Method("get_field", <<"type[FilterRepr]", "Any", "str">>, 0, "filterrepr_get_field"),
   Method("field_keys", <<"type[FilterRepr]", "Any">>, 0, "filterrepr_field_keys"),
   Method("field_values", <<"type[FilterRepr]", "Any">>, 0, "filterrepr_field_values"),
   Method("field_items", <<"type[FilterRepr]", "Any">>, 0, "filterrepr_field_items")}

\* ... register_copyreplace.py: objects that implement __replace__
register_copyreplace ==
  {Method("get_field", <<"CanCopyReplace", "str">>, 0, "copyreplace_get_field"),
   Method("replace", <<"CanCopyReplace">>, 0, "copyreplace_replace"),
   Method("replace", <<"CanCopyReplace", "Mapping[str, Any]">>, 0,
          "copyreplace_replace_fs")}

\* the registry after `import dataclassish`: the package imports flags (and
\* with it flag_compat), register_base, register_dataclass and register_mapping
Registry ==
  flag_compat \cup register_base \cup register_dataclass \cup register_mapping

\* what the dispatcher sees of an argument: a record, a mapping that passes for
\* Mapping[str, Any], any other mapping, or a scalar ("copyreplace" is the shape
\* of an object that implements __replace__ and is none of these)
ShapeOf(h, v) ==
  IF IsDataclass(h, v) THEN "record"
  ELSE IF BearableStrMapping(h, v) THEN "strmapping"
  ELSE IF IsMapping(h, v) THEN "mapping"
  ELSE IF IsF(v) THEN "F"
  ELSE "int"

\* ... of a field name or key
KeyShape(k) == IF IsStr(k) THEN "str" ELSE "nonstr"

\* isinstance(argument of that shape, type)
Bearable(shape, type) ==
  CASE type = "Any" -> TRUE
    [] type = "str" -> shape = "str"
    [] type = "Hashable" -> shape \in {"str", "nonstr", "int"} \cup Flags
    [] type \in {"Mapping[Hashable, Any]", "Mapping[Any, Any]"} ->
         shape \in {"strmapping", "mapping"}
    [] type = "Mapping[str, Any]" -> shape = "strmapping"
    [] type = "DataclassInstance" -> shape = "record"
    [] type = "CanCopyReplace" -> shape = "copyreplace"
    [] type = "type[AbstractFlag]" -> shape \in Flags /\ IsSubclass(shape, AbstractFlag)
    [] type = "type[NoFlag]" -> shape \in Flags /\ IsSubclass(shape, NoFlag)
    [] type = "type[FilterRepr]" -> shape \in Flags /\ IsSubclass(shape, FilterRepr)

\* type t is at least as specific as type u
TypeLE(t, u) ==
  \/ t = u
  \/ u = "Any"
  \/ <<t, u>> \in {<<"str", "Hashable">>,
                   <<"Mapping[str, Any]", "Mapping[Hashable, Any]">>,
                   <<"Mapping[str, Any]", "Mapping[Any, Any]">>,
                   <<"Mapping[Hashable, Any]", "Mapping[Any, Any]">>,
                   <<"type[NoFlag]", "type[AbstractFlag]">>,
                   <<"type[FilterRepr]", "type[AbstractFlag]">>}

\* signature m <= signature n
SignatureLE(m, n) ==
  /\ Len(m.types) = Len(n.types)
  /\ \A i \in 1..Len(m.types) : TypeLE(m.types[i], n.types[i])

\* the implementations of fn whose signature matches the arguments
Matching(fn, shapes) ==
  {m \in Registry :
     /\ m.fn = fn
     /\ Len(m.types) = Len(shapes)
     /\ \A i \in 1..Len(shapes) : Bearable(shapes[i], m.types[i])}

\* the matching implementations that no other matching one is strictly more
\* specific than
Candidates(fn, shapes) ==
  {m \in Matching(fn, shapes) :
     \A n \in Matching(fn, shapes) : SignatureLE(n, m) => SignatureLE(m, n)}

\* the implementation to run, or the lookup error to raise: the one candidate;
\* among several, the one of highest precedence if there is just one such
resolve_method(fn, shapes) ==
  LET candidates == Candidates(fn, shapes)
      top == {m \in candidates : \A n \in candidates : n.precedence <= m.precedence}
  IN IF candidates = {} THEN "NotFoundLookupError"
     ELSE IF Cardinality(candidates) = 1 THEN (CHOOSE m \in candidates : TRUE).impl
     ELSE IF Cardinality(top) = 1 THEN (CHOOSE m \in top : TRUE).impl
     ELSE "AmbiguousLookupError"

\* run implementation impl on (flag,) obj and the further argument arg: the
\* name for get_field, the kwargs for replace, the nested changes for
\* replace(obj, fs), the dict_factory for asdict
Invoke(impl, h, flag, obj, arg) ==
  CASE impl = "base_get_field" -> base_get_field(h, obj, arg)
    [] impl = "dataclass_get_field" -> dataclass_get_field(h, obj, arg)
    [] impl = "mapping_get_field" -> mapping_get_field(h, obj, arg)
    [] impl = "filterrepr_get_field" -> filterrepr_get_field(h, obj, arg)
    [] impl = "base_field_keys" -> base_field_keys(h, obj)
    [] impl = "base_field_values" -> base_field_values(h, obj)
    [] impl = "base_field_items" -> base_field_items(h, obj)
    [] impl = "mapping_field_keys" -> Ok(h, mapping_field_keys(h, obj), <<>>)
    [] impl = "mapping_field_values" -> Ok(h, mapping_field_values(h, obj), <<>>)
    [] impl = "mapping_field_items" -> Ok(h, mapping_field_items(h, obj), <<>>)
    [] impl = "dataclass_replace" -> dataclass_replace(h, obj, Items(h, arg))
    [] impl = "mapping_replace" -> mapping_replace(h, obj, Items(h, arg))
    [] impl = "dataclass_replace_fs" -> dataclass_replace_fs(h, obj, arg, <<>>)
    [] impl = "mapping_replace_fs" -> mapping_replace_fs(h, obj, arg, <<>>)
    [] impl = "dataclass_fields" -> Ok(h, dataclass_fields(h, obj), <<>>)
    [] impl = "mapping_fields" -> Ok(h, mapping_fields(h, obj), <<>>)
    [] impl = "dataclass_asdict" -> dataclass_asdict(h, obj, arg)
    [] impl = "mapping_asdict" -> mapping_asdict(h, obj, arg)
    [] impl = "dataclass_astuple" -> dataclass_astuple(h, obj)
    [] impl = "mapping_astuple" -> Ok(h, mapping_astuple(h, obj), <<>>)
    [] impl = "abstractflag_replace" -> abstractflag_replace(h, obj, Items(h, arg))
    [] impl = "abstractflag_fields" -> abstractflag_fields(h, obj)
    [] impl = "abstractflag_asdict" -> abstractflag_asdict(h, obj, arg)
    [] impl = "abstractflag_astuple" -> abstractflag_astuple(h, obj)
    [] impl = "abstractflag_field_keys" -> abstractflag_field_keys(h, obj)
    [] impl = "abstractflag_field_values" -> abstractflag_field_values(h, obj)
    [] impl = "abstractflag_field_items" -> abstractflag_field_items(h, obj)
    [] impl = "noflag_replace" -> noflag_replace(h, obj, Items(h, arg))
    [] impl = "noflag_fields" -> noflag_fields(h, obj)
    [] impl = "noflag_asdict" -> noflag_asdict(h, obj, arg)
    [] impl = "noflag_astuple" -> noflag_astuple(h, obj)
    [] impl = "noflag_field_keys" -> noflag_field_keys(h, obj)
    [] impl = "noflag_field_values" -> noflag_field_values(h, obj)
    [] impl = "noflag_field_items" -> noflag_field_items(h, obj)
    [] impl = "filterrepr_replace" -> filterrepr_replace(h, obj, Items(h, arg))
    [] impl = "filterrepr_fields" -> filterrepr_fields(h, obj)
    [] impl = "filterrepr_asdict" -> filterrepr_asdict(h, flag, obj, arg)
    [] impl = "filterrepr_astuple" -> filterrepr_astuple(h, obj)
    [] impl = "filterrepr_field_keys" -> filterrepr_field_keys(h, obj)
    [] impl = "filterrepr_field_values" -> filterrepr_field_values(h, obj)
    [] impl = "filterrepr_field_items" -> filterrepr_field_items(h, obj)
    [] OTHER -> Raise(h, impl, {}, <<>>, <<>>)

(***************************************************************************)
(* Converters.  The values converted are None, ints, floats (in tenths)    *)
(* and strs; a call of a converter is recorded in calls.                   *)
(***************************************************************************)
PyNone == [py |-> "None"]
PyFloat(tenths) == [float |-> tenths]
PyStr(text) == [str |-> text]

\* int(text), float(text): the number a str denotes, if any
ParseTenths(text) ==
  CASE text = "0" -> <<0>>
    [] text = "1" -> <<10>>
    [] text = "1.5" -> <<15>>
    [] OTHER -> <<>>

\* the callables handed to a converter: the types int and float
Converters == {"int", "float"}

\* converter(value), for converter the type int or float
call_converter(h, converter, value) ==
  LET call == <<[conv |-> converter, arg |-> value]>> IN
  IF "py" \in DOMAIN value THEN Raise(h, "TypeError", {}, call, <<>>)
  ELSE IF "int" \in DOMAIN value
  THEN Ok(h, IF converter = "int" THEN value ELSE PyFloat(10 * value.int), call)
  ELSE IF "float" \in DOMAIN value
  THEN Ok(h, IF converter = "int" THEN IntV(value.float \div 10) ELSE value, call)
  ELSE LET t == ParseTenths(value.str) IN
       IF t = <<>> \/ (converter = "int" /\ t[1] % 10 # 0)
       THEN Raise(h, "ValueError", {}, call, <<>>)
       ELSE Ok(h, IF converter = "int" THEN IntV(t[1] \div 10) ELSE PyFloat(t[1]), call)

\* bool(value) is False: None, 0, 0.0 and ""
Falsy(value) ==
  value \in {PyNone, IntV(0), PyFloat(0), PyStr("")}

\* mutant: the test is `if not value` rather than `if value is None`
Optional_call_falsy(h, converter, value) ==
  IF Falsy(value) THEN Ok(h, PyNone, <<>>)
  ELSE call_converter(h, converter, value)

\* Optional(converter).__call__(value)
Optional_call(h, converter, value) ==
  IF value = PyNone THEN Ok(h, PyNone, <<>>)
  ELSE call_converter(h, converter, value)

\* type(value).__name__
PyTypeOf(value) ==
  CASE value = PyNone -> "NoneType"
    [] "int" \in DOMAIN value -> "int"
    [] "float" \in DOMAIN value -> "float"
    [] OTHER -> "str"

\* isinstance(value, classinfo), classinfo a type or a tuple of types
isinstance(value, classinfo) ==
  IF "type" \in DOMAIN classinfo
  THEN PyTypeOf(value) = classinfo.type
  ELSE \E i \in 1..Len(classinfo.types) : PyTypeOf(value) = classinfo.types[i]

\* mutant: the converter is applied if the argument IS of a pass-through type
Unless_call_if(h, unconverted_types, converter, value) ==
  IF isinstance(value, unconverted_types)
  THEN call_converter(h, converter, value)
  ELSE Ok(h, value, <<>>)

\* Unless(unconverted_types, converter).__call__(value)
Unless_call(h, unconverted_types, converter, value) ==
  IF isinstance(value, unconverted_types)
  THEN Ok(h, value, <<>>)
  ELSE call_converter(h, converter, value)

(***************************************************************************)
(* The converter-aware field() and dataclass.  A converter object is the   *)
(* type int or float used as a callable, or Optional(int); a Field holds   *)
(* its default, its default_factory and a read-only proxy of its metadata. *)
(***************************************************************************)
\* dataclasses.MISSING
MISSING == [py |-> "MISSING"]
\* dataclasses._HAS_DEFAULT_FACTORY: the default value the generated __init__
\* declares for a field that has a default_factory
HAS_DEFAULT_FACTORY == [py |-> "_HAS_DEFAULT_FACTORY"]

\* callable(v)
callable(v) == "fn" \in DOMAIN v \/ "optional" \in DOMAIN v

\* converter(value), for a converter object
apply_converter(h, converter, value) ==
  IF "fn" \in DOMAIN converter
  THEN call_converter(h, converter.fn, value)
  ELSE Optional_call(h, converter.optional, value)

\* the items seen through a metadata proxy
ProxyItems(h, metadata) ==
  IF metadata = [proxy |-> NoVal] THEN <<>> ELSE Items(h, metadata.proxy)

\* dataclasses.field(metadata=metadata, default=..., default_factory=...)
dataclasses_field(h, metadata, kwargs) ==
  IF kwargs.default # MISSING /\ kwargs.default_factory # MISSING
  THEN RaiseMsg(h, "ValueError", {}, <<"cannot specify both default and default_factory">>)
  ELSE Ok(h, [default |-> kwargs.default,
              default_factory |-> kwargs.default_factory,
              metadata |-> IF metadata = PyNone THEN [proxy |-> NoVal]
                           ELSE [proxy |-> metadata]], <<>>)

\* mutant: the converter is written into the caller's metadata mapping
field_nocopy(h, converter, metadata, kwargs) ==
  IF converter # PyNone
  THEN IF ~callable(converter)
       THEN RaiseMsg(h, "TypeError", {},
                     <<"converter must be callable, got ", ToString(converter.int)>>)
       ELSE IF metadata # PyNone /\ "converter" \in KeySet(Items(h, metadata))
       THEN RaiseMsg(h, "ValueError", {},
                     <<"cannot specify 'converter' in metadata and as a keyword argument.">>)
       ELSE IF metadata # PyNone
       THEN dataclasses_field(
              [h EXCEPT ![metadata.ref].items = Put(@, "converter", converter)],
              metadata, kwargs)
       ELSE dataclasses_field(
              Append(h, Cell("dict", "dict", <<<<"converter", converter>>>>)),
              Ref(Len(h) + 1), kwargs)
  ELSE dataclasses_field(h, metadata, kwargs)

\* field(converter=converter, metadata=metadata, **kwargs)
field(h, converter, metadata, kwargs) ==
  IF converter # PyNone
  THEN IF ~callable(converter)
       THEN RaiseMsg(h, "TypeError", {},
                     <<"converter must be callable, got ", ToString(converter.int)>>)
       ELSE LET d == IF metadata # PyNone THEN Items(h, metadata) ELSE <<>> IN
            IF "converter" \in KeySet(d)
            THEN RaiseMsg(h, "ValueError", {},
                          <<"cannot specify 'converter' in metadata and as a keyword argument.">>)
            ELSE dataclasses_field(
                   Append(h, Cell("dict", "dict", Put(d, "converter", converter))),
                   Ref(Len(h) + 1), kwargs)
  ELSE dataclasses_field(h, metadata, kwargs)

\* f.metadata.get("converter")
metadata_get_converter(h, f) ==
  IF "converter" \in KeySet(ProxyItems(h, f.metadata))
  THEN Lookup(ProxyItems(h, f.metadata), "converter")
  ELSE PyNone

\* the default the signature of the generated __init__ declares for field f
\* (MISSING: the parameter is mandatory)
SigDefault(f) ==
  IF f.default # MISSING THEN f.default
  ELSE IF f.default_factory # MISSING THEN HAS_DEFAULT_FACTORY
  ELSE MISSING

\* default_factory(): the types float and int called without arguments
call_factory(default_factory) ==
  IF default_factory.fn = "float" THEN PyFloat(0) ELSE IntV(0)

RECURSIVE class_body(_, _, _)
\* executing the class body: every declaration calls field()
class_body(h, decls, acc) ==
  IF decls = <<>> THEN Ok(h, acc, <<>>)
  ELSE LET r == field(h, decls[1].converter, PyNone, decls[1].kwargs) IN
       IF ~r.ok THEN r
       ELSE class_body(r.h, Tail(decls),
                       Append(acc, r.val @@ [name |-> decls[1].name]))

\* @dataclass on a class with the given name, field declarations and other
\* class attributes: the class, with the fields dataclasses.fields() reports
process_dataclass(h, name, decls, attrs) ==
  LET r == class_body(h, decls, <<>>) IN
  IF ~r.ok THEN r
  ELSE Ok(r.h, [__name__ |-> name, fields |-> r.val, attrs |-> attrs], <<>>)

RECURSIVE BindArguments(_, _, _, _)
\* the arguments bound to the parameters fs from position i on, in parameter
\* order; a parameter that is not given is left out
BindArguments(fs, args, kwargs, i) ==
  IF i > Len(fs) THEN <<>>
  ELSE (IF i <= Len(args) THEN <<<<fs[i].name, args[i]>>>>
        ELSE IF fs[i].name \in KeySet(kwargs)
        THEN <<<<fs[i].name, Lookup(kwargs, fs[i].name)>>>>
        ELSE <<>>) \o BindArguments(fs, args, kwargs, i + 1)

\* Signature.bind_partial(*args, **kwargs)
bind_partial(h, fs, args, kwargs) ==
  LET names == {fs[j].name : j \in 1..Len(fs)}
      badpos == {i \in 1..Len(args) :
                   i > Len(fs) \/ fs[i].name \in KeySet(kwargs)}
      first == CHOOSE i \in badpos : \A j \in badpos : i <= j
  IN IF badpos # {}
     THEN IF first > Len(fs)
          THEN RaiseMsg(h, "TypeError", {}, <<"too many positional arguments">>)
          ELSE RaiseMsg(h, "TypeError", {},
                        <<"multiple values for argument ", fs[first].name>>)
     ELSE IF \E k \in KeySet(kwargs) : k \notin names
     THEN RaiseMsg(h, "TypeError", {}, <<"got an unexpected keyword argument">>)
     ELSE Ok(h, BindArguments(fs, args, kwargs, 1), <<>>)

RECURSIVE apply_defaults(_, _)
\* BoundArguments.apply_defaults(): a parameter that is not given takes the
\* default of the signature, if it has one
apply_defaults(fs, arguments) ==
  IF fs = <<>> THEN <<>>
  ELSE (IF fs[1].name \in KeySet(arguments)
        THEN <<<<fs[1].name, Lookup(arguments, fs[1].name)>>>>
        ELSE IF SigDefault(fs[1]) # MISSING
        THEN <<<<fs[1].name, SigDefault(fs[1])>>>>
        ELSE <<>>) \o apply_defaults(Tail(fs), arguments)

RECURSIVE ba_args(_, _)
\* BoundArguments.args: the values of the parameters before the first one
\* that has no argument
ba_args(fs, arguments) ==
  IF fs = <<>> \/ fs[1].name \notin KeySet(arguments) THEN <<>>
  ELSE <<Lookup(arguments, fs[1].name)>> \o ba_args(Tail(fs), arguments)

RECURSIVE StoreFields(_, _)
\* the body of the generated __init__: self.name = name, or default_factory()
\* where the parameter holds the factory marker
StoreFields(fs, arguments) ==
  IF fs = <<>> THEN <<>>
  ELSE LET v == Lookup(arguments, fs[1].name) IN
       <<<<fs[1].name,
           IF v = HAS_DEFAULT_FACTORY THEN call_factory(fs[1].default_factory)
           ELSE v>>>> \o StoreFields(Tail(fs), arguments)

\* self.__dataclass_init__(*args, **kwargs): the generated __init__
dataclass_init(h, cls, args, kwargs) ==
  LET fs == cls.fields
      names == {fs[j].name : j \in 1..Len(fs)}
      given == {fs[j].name : j \in 1..(IF Len(args) < Len(fs) THEN Len(args) ELSE Len(fs))}
      arguments == apply_defaults(fs, BindArguments(fs, args, kwargs, 1))
      missing == SelectSeq([j \in 1..Len(fs) |-> fs[j].name],
                           LAMBDA k : k \notin KeySet(arguments))
  IN IF \E k \in KeySet(kwargs) : k \notin names
     THEN RaiseMsg(h, "TypeError", {}, <<"__init__() got an unexpected keyword argument">>)
     ELSE IF \E k \in KeySet(kwargs) : k \in given
     THEN RaiseMsg(h, "TypeError", {}, <<"__init__() got multiple values for argument">>)
     ELSE IF Len(args) > Len(fs)
     THEN RaiseMsg(h, "TypeError", {}, <<"__init__() takes too many positional arguments">>)
     ELSE IF missing # <<>>
     THEN RaiseMsg(h, "TypeError", {},
                   <<"__init__() missing required positional argument">> \o missing)
     ELSE Ok(Append(h, Cell("rec", cls.__name__, StoreFields(fs, arguments))),
             Ref(Len(h) + 1), <<>>)

RECURSIVE convert_fields_noskip(_, _, _, _)
\* mutant: a mandatory field that is not provided is converted all the same
convert_fields_noskip(h, fs, arguments, calls) ==
  IF fs = <<>> THEN Ok(h, arguments, calls)
  ELSE LET k == fs[1].name
           converter == metadata_get_converter(h, fs[1])
           v == IF k \in KeySet(arguments) THEN Lookup(arguments, k) ELSE MISSING
       IN IF converter = PyNone
          THEN convert_fields_noskip(h, Tail(fs), arguments, calls)
          ELSE LET r == apply_converter(h, converter, v)
                   cs == Append(calls, [field |-> k, conv |-> converter, arg |-> v])
               IN IF ~r.ok THEN [r EXCEPT !.calls = cs]
                  ELSE convert_fields_noskip(r.h, Tail(fs), Put(arguments, k, r.val), cs)

RECURSIVE convert_fields(_, _, _, _)
\* for f in dataclasses.fields(self): convert the argument of f, if f has a
\* converter and an argument
convert_fields(h, fs, arguments, calls) ==
  IF fs = <<>> THEN Ok(h, arguments, calls)
  ELSE LET k == fs[1].name
           converter == metadata_get_converter(h, fs[1])
       IN IF k \notin KeySet(arguments) \/ converter = PyNone
          THEN convert_fields(h, Tail(fs), arguments, calls)
          ELSE LET v == Lookup(arguments, k)
                   r == apply_converter(h, converter, v)
                   cs == Append(calls, [field |-> k, conv |-> converter, arg |-> v])
               IN IF ~r.ok THEN [r EXCEPT !.calls = cs]
                  ELSE convert_fields(r.h, Tail(fs), Put(arguments, k, r.val), cs)

\* mutant: _skip_convert is ignored
converter_init_always(h, cls, args, kwargs, _skip_convert) ==
  LET fs == cls.fields
      b == bind_partial(h, fs, args, kwargs)
  IN IF ~b.ok THEN b
     ELSE LET c == convert_fields(h, fs, apply_defaults(fs, b.val), <<>>) IN
          IF ~c.ok THEN c
          ELSE \* *ba.args, **ba.kwargs: the arguments after ba.args go by name
               [dataclass_init(c.h, cls, ba_args(fs, c.val),
                               SubSeq(c.val, Len(ba_args(fs, c.val)) + 1, Len(c.val)))
                  EXCEPT !.calls = c.calls]

\* converter_init(self, args, kwargs, _skip_convert=...), reached from the
\* __init__ that process_dataclass installs
converter_init(h, cls, args, kwargs, _skip_convert) ==
  IF _skip_convert THEN dataclass_init(h, cls, args, kwargs)
  ELSE LET fs == cls.fields
           b == bind_partial(h, fs, args, kwargs)
       IN IF ~b.ok THEN b
          ELSE LET c == convert_fields(h, fs, apply_defaults(fs, b.val), <<>>) IN
               IF ~c.ok THEN c
               ELSE \* *ba.args, **ba.kwargs: the arguments after ba.args go by name
               [dataclass_init(c.h, cls, ba_args(fs, c.val),
                               SubSeq(c.val, Len(ba_args(fs, c.val)) + 1, Len(c.val)))
                       EXCEPT !.calls = c.calls]

\* getattr(obj, name) for an instance of cls: the instance's own attribute, or
\* the attribute of the class
getattr(h, cls, obj, name) ==
  IF name \in KeySet(Items(h, obj)) THEN Lookup(Items(h, obj), name)
  ELSE Lookup(cls.attrs, name)

(***************************************************************************)
(* The caller's data: the structured values it starts from and the changes *)
(* it passes.                                                              *)
(***************************************************************************)
Keys == {"a", "b"}
\* "z" names no field of the record class
KwKeys == Keys \cup {"z"}

LeafDicts ==
  {LDict("dict", <<>>),
   LDict("dict", <<<<"a", LInt(1)>>>>),
   LDict("dict", <<<<"a", LInt(1)>>, <<"b", LInt(1)>>>>)}

ObjVals == {LInt(1), LRec(LInt(1), LInt(1))} \cup LeafDicts

DeepSeeds ==
  {LDict("dict", <<<<"a", LDict("dict", <<<<"a", LDict("dict", <<<<"a", LInt(1)>>>>)>>,
                                         <<"b", LInt(1)>>>>)>>>>),
   LRec(LDict("dict", <<<<"a", LRec(LInt(1), LInt(1))>>>>), LInt(1)),
   LDict("dict", <<<<"b", LRec(LInt(1), LRec(LInt(1), LInt(1)))>>>>)}

NonStrSeeds ==
  {LDict("dict", <<<<"#1", LInt(1)>>>>),
   LDict("dict", <<<<"a", LInt(1)>>, <<"#1", LInt(1)>>>>),
   LDict("dict", <<<<"#1", LInt(1)>>, <<"a", LInt(1)>>>>)}

Seeds ==
  {LDict("dict", its) : its \in ItemSeqs2(Keys, ObjVals)} \cup
  {LDict("MyDict", its) : its \in ItemSeqs1(Keys, ObjVals)} \cup
  {LRec(v, w) : v \in ObjVals, w \in ObjVals} \cup
  {LRecOf("AH", v, w) : v \in ObjVals, w \in ObjVals} \cup
  {LRecOf("HH", LInt(1), w) : w \in ObjVals} \cup
  DeepSeeds \cup NonStrSeeds

\* the named changes of a flat replace
Kwargs == ItemSeqs2(KwKeys, {LInt(2)})

ChgAtoms ==
  {LInt(2), LF(LInt(2)),
   LF(LDict("dict", <<<<"a", LDict("dict", <<<<"b", LInt(2)>>>>)>>>>))}

Chg0 ==
  {LDict("dict", <<>>),
   LDict("dict", <<<<"a", LInt(2)>>>>),
   LDict("dict", <<<<"b", LF(LInt(2))>>>>)}

Chg1 == {LDict("dict", its) : its \in ItemSeqs2(Keys, ChgAtoms \cup Chg0)}

RECURSIVE Nest(_)
Nest(d) ==
  IF d = 0 THEN Chg1
  ELSE Nest(d - 1) \cup {LDict("dict", <<<<k, m>>>>) : k \in Keys, m \in Nest(d - 1)}

\* the nested_changes of a recursive replace
Changes == Nest(MaxNest)

RECURSIVE LitOf(_, _)
\* the literal that denotes value v of heap h
LitOf(h, v) ==
  IF IsRef(v)
  THEN [lit |-> h[v.ref].kind, cls |-> h[v.ref].cls,
        items |-> [i \in 1..Len(Items(h, v)) |->
                     <<Items(h, v)[i][1], LitOf(h, Items(h, v)[i][2])>>]]
  ELSE IF IsF(v) THEN LF(LitOf(h, v.wrap))
  ELSE v

(***************************************************************************)
(* The state machine.  orig is the caller's heap (its value x and nothing  *)
(* else), pre the heap when the last call was entered (orig and the        *)
(* arguments built for it), heap the heap when it returned, last the call  *)
(* and its outcome.                                                        *)
(***************************************************************************)
Done(op, arg, r) ==
  [op |-> op, arg |-> arg, ok |-> r.ok, val |-> r.val, err |-> r.err,
   bad |-> r.bad, calls |-> r.calls, fail |-> r.fail, msg |-> r.msg,
   flag |-> "none", fop |-> "none"]

\* the record of a flag-qualified call op(flag, x, ...)
FlagDone(flag, op, arg, r) ==
  [Done(op, arg, r) EXCEPT !.op = "flagged", !.fop = op, !.flag = flag]

\* no call is in progress and no result is held
Idle == Done("idle", NoVal, Ok(<<>>, NoVal, <<>>))

Init ==
  \E s \in Seeds :
    LET a == Alloc(<<>>, s) IN
      /\ orig = a.h
      /\ pre = a.h
      /\ heap = a.h
      /\ x = a.val
      /\ last = Idle
      /\ steps = 0

\* replace(x, **c)
Replace ==
  /\ last = Idle
  /\ \E kw \in Kwargs :
    LET a == Alloc(orig, LDict("dict", kw))
        r == replace(a.h, x, Items(a.h, a.val))
    IN /\ pre' = a.h
       /\ heap' = r.h
       /\ last' = Done("replace", a.val, r)
       /\ UNCHANGED <<orig, x, steps>>

\* replace(x, nested_changes)
ReplaceFs ==
  /\ last = Idle
  /\ \E fs \in Changes :
    LET a == Alloc(orig, fs)
        r == replace_fs(a.h, x, a.val, <<>>)
    IN /\ pre' = a.h
       /\ heap' = r.h
       /\ last' = Done("replace_fs", a.val, r)
       /\ UNCHANGED <<orig, x, steps>>

Call(op, arg, r) ==
  /\ last = Idle
  /\ pre' = orig
  /\ heap' = r.h
  /\ last' = Done(op, arg, r)
  /\ UNCHANGED <<orig, x, steps>>

GetField == \E k \in KwKeys \cup NonStrKeys : Call("get_field", k, get_field(orig, x, k))
Fields == Call("fields", NoVal, fields(orig, x))
FieldKeys == Call("field_keys", NoVal, field_keys(orig, x))
FieldValues == Call("field_values", NoVal, field_values(orig, x))
FieldItems == Call("field_items", NoVal, field_items(orig, x))
AsDict == Call("asdict", NoVal, asdict(orig, x, "dict"))
\* asdict(x, dict_factory=f)
AsDictFactory ==
  \E f \in DictFactories \ {"dict"} : Call("asdict_factory", f, asdict(orig, x, f))
AsTuple == Call("astuple", NoVal, astuple(orig, x))

\* replace(flag, x, **c)
FlagReplace ==
  /\ last = Idle
  /\ \E flag \in Flags, kw \in Kwargs :
    LET a == Alloc(orig, LDict("dict", kw))
        r == replace_flag(a.h, flag, x, Items(a.h, a.val))
    IN /\ pre' = a.h
       /\ heap' = r.h
       /\ last' = FlagDone(flag, "replace", a.val, r)
       /\ UNCHANGED <<orig, x, steps>>

\* replace(flag, x, nested_changes)
FlagReplaceFs ==
  /\ last = Idle
  /\ \E flag \in Flags, fs \in Chg0 :
    LET a == Alloc(orig, fs)
        r == replace_fs_flag(a.h, flag, x, a.val)
    IN /\ pre' = a.h
       /\ heap' = r.h
       /\ last' = FlagDone(flag, "replace_fs", a.val, r)
       /\ UNCHANGED <<orig, x, steps>>

FlagCall(flag, op, arg, r) ==
  /\ last = Idle
  /\ pre' = orig
  /\ heap' = r.h
  /\ last' = FlagDone(flag, op, arg, r)
  /\ UNCHANGED <<orig, x, steps>>

FlagGetField ==
  \E flag \in Flags, k \in KwKeys \cup NonStrKeys :
    FlagCall(flag, "get_field", k, get_field_flag(orig, flag, x, k))
FlagFields ==
  \E flag \in Flags : FlagCall(flag, "fields", NoVal, fields_flag(orig, flag, x))
FlagFieldKeys ==
  \E flag \in Flags : FlagCall(flag, "field_keys", NoVal, field_keys_flag(orig, flag, x))
FlagFieldValues ==
  \E flag \in Flags : FlagCall(flag, "field_values", NoVal, field_values_flag(orig, flag, x))
FlagFieldItems ==
  \E flag \in Flags : FlagCall(flag, "field_items", NoVal, field_items_flag(orig, flag, x))
FlagAsDict ==
  \E flag \in Flags, f \in DictFactories :
    FlagCall(flag, "asdict", f, asdict_flag(orig, flag, x, f))
FlagAsTuple ==
  \E flag \in Flags : FlagCall(flag, "astuple", NoVal, astuple_flag(orig, flag, x))

\* the classes a caller may try to construct: the flags of the package and a
\* subclass of its own
FlagClasses ==
  {[__name__ |-> c] : c \in Flags}

\* the positional arguments of a construction
CtorArgs == {<<>>, <<IntV(1)>>, <<IntV(1), IntV(2)>>}

\* cls(*args)
Construct ==
  \E cls \in FlagClasses, args \in CtorArgs :
    Call("construct", [cls |-> cls.__name__, args |-> args],
         AbstractFlag_new(orig, cls, args))

\* the values a caller hands to a converter
PyVals ==
  {PyNone, IntV(0), IntV(1), PyFloat(0), PyFloat(15),
   PyStr(""), PyStr("1"), PyStr("1.5"), PyStr("x")}

\* Optional(c)(v)
OptionalCall ==
  \E c \in Converters, v \in PyVals :
    Call("Optional", [converter |-> c, value |-> v], Optional_call(orig, c, v))

\* the pass-through types of an Unless
PassThroughTs ==
  {[type |-> "int"], [type |-> "float"], [types |-> <<>>],
   [types |-> <<"int", "str">>], [types |-> <<"NoneType", "float">>]}

\* Unless(T, c)(v)
UnlessCall ==
  \E t \in PassThroughTs, c \in Converters, v \in PyVals :
    Call("Unless", [types |-> t, converter |-> c, value |-> v],
         Unless_call(orig, t, c, v))

\* the converter arguments of field(): none, a non-callable, callables
FieldConverters == {PyNone, IntV(1), [fn |-> "int"], [optional |-> "int"]}

\* the metadata arguments of field(): none, or a mapping the caller holds
FieldMetadata ==
  {PyNone,
   LDict("dict", <<>>),
   LDict("dict", <<<<"unit", IntV(1)>>>>),
   LDict("dict", <<<<"unit", IntV(1)>>, <<"converter", [fn |-> "float"]>>>>),
   LDict("dict", <<<<"converter", PyNone>>>>)}

FieldKwargsSet ==
  {[default |-> MISSING, default_factory |-> MISSING],
   [default |-> PyFloat(20), default_factory |-> MISSING],
   [default |-> PyFloat(20), default_factory |-> [fn |-> "float"]]}

\* field(converter=c, metadata=m, **kwargs)
FieldCall ==
  /\ last = Idle
  /\ \E c \in FieldConverters, m \in FieldMetadata, kw \in FieldKwargsSet :
    LET a == Alloc(orig, m)
        r == field(a.h, c, a.val, kw)
    IN /\ pre' = a.h
       /\ heap' = r.h
       /\ last' = Done("field", [converter |-> c, metadata |-> a.val, kwargs |-> kw], r)
       /\ UNCHANGED <<orig, x, steps>>

\* the converter-enabled dataclasses a caller declares: name, field
\* declarations, other class attributes
ClassDecls ==
  {<<"MyClass",
     <<[name |-> "attr", converter |-> [optional |-> "int"],
        kwargs |-> [default |-> PyFloat(20), default_factory |-> MISSING]]>>,
     <<>> >>,
   <<"Described",
     <<[name |-> "attr", converter |-> [fn |-> "int"],
        kwargs |-> [default |-> IntV(0), default_factory |-> MISSING]],
       [name |-> "descriptor", converter |-> PyNone,
        kwargs |-> [default |-> IntV(42), default_factory |-> MISSING]]>>,
     <<<<"note", PyStr("1")>>>> >>,
   <<"Mandatory",
     <<[name |-> "attr", converter |-> PyNone,
        kwargs |-> [default |-> MISSING, default_factory |-> MISSING]]>>,
     <<>> >>,
   <<"Pair",
     <<[name |-> "attr", converter |-> [fn |-> "int"],
        kwargs |-> [default |-> MISSING, default_factory |-> MISSING]],
       [name |-> "b", converter |-> [fn |-> "int"],
        kwargs |-> [default |-> PyStr("x"), default_factory |-> MISSING]]>>,
     <<>> >>,
   <<"Factory",
     <<[name |-> "attr", converter |-> [fn |-> "int"],
        kwargs |-> [default |-> MISSING, default_factory |-> [fn |-> "float"]]]>>,
     <<>> >>}

\* the positional and the keyword arguments of a construction
NewArgs ==
  {<<>>, <<PyNone>>, <<PyStr("1")>>, <<PyStr("1"), PyNone>>,
   <<PyStr("1"), PyStr("1")>>, <<PyStr("1"), PyStr("1"), PyStr("1")>>}
NewKwargs ==
  {<<>>, <<<<"attr", PyStr("1")>>>>, <<<<"b", PyStr("1")>>>>, <<<<"zzz", PyStr("1")>>>>}

\* declaring a converter-enabled dataclass and calling it:
\* cls(*args, **kwargs) or cls(*args, _skip_convert=True, **kwargs)
NewInstance ==
  /\ last = Idle
  /\ \E d \in ClassDecls, args \in NewArgs, kwargs \in NewKwargs, skip \in BOOLEAN :
    LET c == process_dataclass(orig, d[1], d[2], d[3])
        r == converter_init(c.h, c.val, args, kwargs, skip)
    IN /\ pre' = c.h
       /\ heap' = r.h
       /\ last' = Done("new", [cls |-> c.val, args |-> args, kwargs |-> kwargs,
                               skip |-> skip], r)
       /\ UNCHANGED <<orig, x, steps>>

\* x = replace(x, **c): the caller keeps the result of a flat replace and drops
\* everything else
Rebind ==
  /\ last.op = "replace"
  /\ last.ok
  /\ steps < MaxOps
  /\ LET a == Alloc(<<>>, LitOf(heap, last.val)) IN
       /\ orig' = a.h
       /\ pre' = a.h
       /\ heap' = a.h
       /\ x' = a.val
       /\ last' = Idle
  /\ steps' = steps + 1

\* the caller drops the result of the last call
Drop ==
  /\ last # Idle
  /\ pre' = orig
  /\ heap' = orig
  /\ last' = Idle
  /\ UNCHANGED <<orig, x, steps>>

Next ==
  \/ Replace
  \/ ReplaceFs
  \/ GetField
  \/ Fields
  \/ FieldKeys
  \/ FieldValues
  \/ FieldItems
  \/ AsDict
  \/ AsDictFactory
  \/ AsTuple
  \/ FlagReplace
  \/ FlagReplaceFs
  \/ FlagGetField
  \/ FlagFields
  \/ FlagFieldKeys
  \/ FlagFieldValues
  \/ FlagFieldItems
  \/ FlagAsDict
  \/ FlagAsTuple
  \/ Construct
  \/ OptionalCall
  \/ UnlessCall
  \/ FieldCall
  \/ NewInstance
  \/ Rebind
  \/ Drop

Spec == Init /\ [][Next]_vars

TypeOK ==
  /\ steps \in 0..MaxOps
  /\ IsRef(x)
  /\ x.ref \in 1..Len(orig)
  /\ Len(orig) <= Len(pre)
  /\ Len(pre) <= Len(heap)

(***************************************************************************)
(* Vocabulary of the properties.                                           *)
(***************************************************************************)
IsPrefix(p, q) == Len(p) <= Len(q) /\ SubSeq(q, 1, Len(p)) = p

RECURSIVE ValAt(_, _, _)
\* the value found in v by following the keys of path
ValAt(h, v, path) ==
  IF path = <<>> THEN v ELSE ValAt(h, Lookup(Items(h, v), path[1]), Tail(path))

\* the entries of the changes mapping passed to the last replace
ArgItems == Items(pre, last.arg)

\* every replace(obj, fs) call of the last recursive replace: the caller's own,
\* then the recursive ones
AllCalls == <<[path |-> <<>>, obj |-> x, fs |-> last.arg]>> \o last.calls

\* v is a nested-changes mapping that asks for a merge (not a leaf wrapper)
IsMerge(h, v) == ~IsF(v) /\ IsMapping(h, v)

(***************************************************************************)
(* C1.  Recursive replace merges: after a successful replace(x, fs), at    *)
(* every level reached, a mapping-shaped entry (k, v) leaves at k the      *)
(* merge of the current value at k with v (which is what replace(current   *)
(* value, v) returns), and every key not named at that level keeps its     *)
(* original value.                                                         *)
(***************************************************************************)
RECURSIVE Merged(_, _, _, _)
Merged(h, obj, fs, res) ==
  /\ IsRef(res)
  /\ \A k \in KeySet(Items(h, obj)) \ KeySet(Items(h, fs)) :
       /\ k \in KeySet(Items(h, res))
       /\ Lookup(Items(h, res), k) = Lookup(Items(h, obj), k)
  /\ \A i \in 1..Len(Items(h, fs)) :
       LET k == Items(h, fs)[i][1]
           v == Items(h, fs)[i][2]
       IN IsMerge(h, v) =>
            /\ k \in KeySet(Items(h, obj))
            /\ k \in KeySet(Items(h, res))
            /\ Merged(h, Lookup(Items(h, obj), k), v, Lookup(Items(h, res), k))
            /\ LET r == replace_fs(h, Lookup(Items(h, obj), k), v, <<k>>) IN
                 /\ r.ok
                 /\ Deep(r.h, r.val) = Deep(h, Lookup(Items(h, res), k))

C1_RecursiveMerge ==
  (last.op = "replace_fs" /\ last.ok) => Merged(heap, x, last.arg, last.val)

\* a merge two levels down, through a record held by a mapping, changed the value
C1_Witness ==
  /\ last.op = "replace_fs"
  /\ last.ok
  /\ IsMapping(pre, x)
  /\ ~PyEq(heap, x, last.val)
  /\ \E i \in 1..Len(last.calls) :
       /\ Len(last.calls[i].path) = 2
       /\ Items(pre, last.calls[i].fs) # <<>>
  /\ \E i \in 1..Len(last.calls) : IsDataclass(pre, last.calls[i].obj)

(***************************************************************************)
(* C2.  Leaf wrapper stops recursion: in a recursive replace, an entry     *)
(* (k, F(value)) of any replace call makes no recursive replace call, and  *)
(* when the call succeeds the result holds exactly value at k; this holds  *)
(* when value is a mapping and when the current value at k is a scalar.    *)
(***************************************************************************)
C2_WrapperStops ==
  last.op = "replace_fs" =>
    \A c \in 1..Len(AllCalls) :
      \A i \in 1..Len(Items(pre, AllCalls[c].fs)) :
        LET k == Items(pre, AllCalls[c].fs)[i][1]
            v == Items(pre, AllCalls[c].fs)[i][2]
            p == Append(AllCalls[c].path, k)
        IN IsF(v) =>
             /\ \A d \in 1..Len(last.calls) : ~IsPrefix(p, last.calls[d].path)
             /\ last.ok => ValAt(heap, last.val, p) = v.wrap

\* a wrapped mapping that holds a nested mapping replaced a scalar
C2_Witness ==
  /\ last.op = "replace_fs"
  /\ last.ok
  /\ \E i \in 1..Len(ArgItems) :
       /\ IsF(ArgItems[i][2])
       /\ IsMapping(pre, ArgItems[i][2].wrap)
       /\ ArgItems[i][1] \in KeySet(Items(pre, x))
       /\ IsInt(Lookup(Items(pre, x), ArgItems[i][1]))
       /\ Lookup(Items(heap, last.val), ArgItems[i][1]) = ArgItems[i][2].wrap

(***************************************************************************)
(* C3.  Scalar-merge failure.                                              *)
(***************************************************************************)
RECURSIVE ScalarMerges(_, _, _, _)
\* the paths of the mapping-shaped entries, reached through merges, whose
\* current value is a scalar
ScalarMerges(h, obj, fs, path) ==
  UNION {LET k == Items(h, fs)[i][1]
             v == Items(h, fs)[i][2]
         IN IF IsMerge(h, v) /\ k \in KeySet(Items(h, obj))
            THEN IF IsRef(Lookup(Items(h, obj), k))
                 THEN ScalarMerges(h, Lookup(Items(h, obj), k), v, Append(path, k))
                 ELSE {Append(path, k)}
            ELSE {} : i \in 1..Len(Items(h, fs))}

\* C3 as claimed: whenever a mapping-shaped entry meets a scalar, at any depth,
\* the whole call fails with the dispatch not-found error and returns no value
C3_AsClaimed ==
  (last.op = "replace_fs" /\ ScalarMerges(pre, x, last.arg, <<>>) # {}) =>
    /\ ~last.ok
    /\ last.val = NoVal
    /\ last.err = "NotFoundLookupError"

\* C3 as amended: whenever a mapping-shaped entry meets a scalar, at any depth,
\* the whole call fails and returns no value; the error is the dispatch
\* not-found error exactly when the first entry to fail, in processing order,
\* is such an entry, and otherwise the error of the entry that failed before it
C3_ScalarMergeFails ==
  (last.op = "replace_fs" /\ ScalarMerges(pre, x, last.arg, <<>>) # {}) =>
    /\ ~last.ok
    /\ last.val = NoVal
    /\ last.err # "none"
    /\ (last.err = "NotFoundLookupError") <=>
         (last.fail \in ScalarMerges(pre, x, last.arg, <<>>))

\* the merge met the scalar two levels down
C3_Witness ==
  /\ last.op = "replace_fs"
  /\ ~last.ok
  /\ last.err = "NotFoundLookupError"
  /\ Len(last.fail) = 2
  /\ last.fail \in ScalarMerges(pre, x, last.arg, <<>>)

C5_AbsentKeyFails ==
  (/\ last.op = "replace_fs"
   /\ \E c \in 1..Len(AllCalls) :
        /\ IsMapping(pre, AllCalls[c].obj)
        /\ KeySet(Items(pre, AllCalls[c].fs)) \ KeySet(Items(pre, AllCalls[c].obj)) # {})
    => ~last.ok

(***************************************************************************)
(* C6.  No operation mutates its inputs: whatever call was made last, and  *)
(* whether it returned or raised, every object that existed when it was    *)
(* entered (the caller's value, its nested values, the changes mapping) is *)
(* what it was, and so is every object of the caller's original value.     *)
(***************************************************************************)
C6_InputsNotMutated ==
  /\ SubSeq(heap, 1, Len(pre)) = pre
  /\ SubSeq(pre, 1, Len(orig)) = orig

\* a recursive replace built a different value out of nested merges
C6_Witness ==
  /\ last.op = "replace_fs"
  /\ last.ok
  /\ Len(last.calls) > 0
  /\ ~PyEq(heap, x, last.val)

(***************************************************************************)
(* C7.  As claimed: replace(x) with no changes and replace(x, {}) succeed  *)
(* for every record and every mapping x, whatever hashable keys it has,    *)
(* and return a value equal to x; for a mapping, a different object.       *)
(***************************************************************************)
C7_RoundTrip ==
  (last.op \in {"replace", "replace_fs"} /\ ArgItems = <<>>) =>
    /\ last.ok
    /\ PyEq(heap, last.val, x)
    /\ IsMapping(pre, x) => last.val # x

(***************************************************************************)
(* C8.  Flat replace is idempotent: when replace(x, **c) succeeds,         *)
(* replace(replace(x, **c), **c) succeeds and equals replace(x, **c).      *)
(***************************************************************************)
C8_FlatIdempotent ==
  (last.op = "replace" /\ last.ok) =>
    LET again == replace(heap, last.val, ArgItems) IN
      /\ again.ok
      /\ Deep(again.h, again.val) = Deep(heap, last.val)

\* two fields were changed and the result differs from x
C8_Witness ==
  /\ last.op = "replace"
  /\ last.ok
  /\ Len(ArgItems) = 2
  /\ ~PyEq(heap, x, last.val)

(***************************************************************************)
(* C9.  A successful flat replace on a mapping returns a new container of  *)
(* the input's concrete type with the same key set, the named keys holding *)
(* the new values and the others their original ones; and the key set of   *)
(* the caller's mapping never changes along a sequence of flat replaces.   *)
(***************************************************************************)
C9_Frame ==
  (last.op = "replace" /\ last.ok /\ IsMapping(pre, x)) =>
    /\ IsRef(last.val)
    /\ last.val.ref > Len(pre)
    /\ heap[last.val.ref].kind = "dict"
    /\ heap[last.val.ref].cls = pre[x.ref].cls
    /\ KeySet(Items(heap, last.val)) = KeySet(Items(pre, x))
    /\ \A k \in KeySet(Items(pre, x)) :
         Lookup(Items(heap, last.val), k) =
           IF k \in KeySet(ArgItems) THEN Lookup(ArgItems, k)
           ELSE Lookup(Items(pre, x), k)

C9_FlatReplaceFrame ==
  /\ []C9_Frame
  /\ [][KeySet(Items(orig', x')) = KeySet(Items(orig, x))]_vars

\* a second flat replace in a row, on a mapping that is not a plain dict
C9_Witness ==
  /\ last.op = "replace"
  /\ last.ok
  /\ steps = 1
  /\ pre[x.ref].cls = "MyDict"
  /\ ArgItems # <<>>

(***************************************************************************)
(* C10.  Mapping/record uniformity.                                        *)
(***************************************************************************)
RECURSIVE RecordFree(_, _)
\* no record in v, at any depth
RecordFree(h, v) ==
  IsRef(v) =>
    /\ h[v.ref].kind # "rec"
    /\ \A i \in 1..Len(Items(h, v)) : RecordFree(h, Items(h, v)[i][2])

\* asdict of the mapping that holds the data of record x (same names, same
\* values, same order) equals the asdict of x just returned
TwinAsDictEqual ==
  LET h2 == Append(heap, Cell("dict", "dict", Items(orig, x)))
      t  == asdict(h2, Ref(Len(heap) + 1), "dict")
  IN t.ok /\ last.ok /\ Deep(t.h, t.val) = Deep(heap, last.val)

\* field_keys, field_values and field_items follow fields, position by position
FollowsFields ==
  LET fs == fields(orig, x).val.tup IN
    /\ last.op = "field_keys" =>
         /\ Len(last.val.tup) = Len(fs)
         /\ \A i \in 1..Len(fs) : last.val.tup[i] = fs[i].name
    /\ last.op = "field_values" =>
         /\ Len(last.val.tup) = Len(fs)
         /\ \A i \in 1..Len(fs) : last.val.tup[i] = Lookup(Items(orig, x), fs[i].name)
    /\ last.op = "field_items" =>
         /\ Len(last.val.tup) = Len(fs)
         /\ \A i \in 1..Len(fs) :
              last.val.tup[i] = <<fs[i].name, Lookup(Items(orig, x), fs[i].name)>>

\* C10 as claimed: the values may themselves be records or mappings
C10_AsClaimed ==
  /\ (last.op = "asdict" /\ IsDataclass(orig, x)) => TwinAsDictEqual
  /\ (last.op \in {"field_keys", "field_values", "field_items"}
        /\ fields(orig, x).ok) => FollowsFields

\* C10 as amended: for the same data held once as a record and once as a
\* mapping, the values holding no record at any depth (scalars, or mappings of
\* such values), as_dict of both are equal dictionaries; and for each of them
\* field_keys, field_values and field_items follow fields position by position
C10_Uniformity ==
  /\ (/\ last.op = "asdict"
      /\ IsDataclass(orig, x)
      /\ \A i \in 1..Len(Items(orig, x)) : RecordFree(orig, Items(orig, x)[i][2]))
       => TwinAsDictEqual
  /\ (last.op \in {"field_keys", "field_values", "field_items"}
        /\ fields(orig, x).ok) => FollowsFields

\* asdict of a record that holds a mapping and no record
C10_Witness ==
  /\ last.op = "asdict"
  /\ last.ok
  /\ IsDataclass(orig, x)
  /\ \E i \in 1..Len(Items(orig, x)) : IsMapping(orig, Items(orig, x)[i][2])
  /\ \A i \in 1..Len(Items(orig, x)) : RecordFree(orig, Items(orig, x)[i][2])

(***************************************************************************)
(* C11.  as_dict on a mapping.                                             *)
(***************************************************************************)
\* the dict_factory of the last asdict call
UsedFactory == IF last.op = "asdict" THEN "dict" ELSE last.arg

\* the last asdict call returned a mapping holding the key -> value pairs of x,
\* the values being the very objects x holds
SamePairs ==
  /\ last.ok
  /\ IsMapping(heap, last.val)
  /\ Items(heap, last.val) = Items(orig, x)

\* C11 as claimed: as_dict on a mapping returns a container with the same pairs
\* that is never the same object as the input, for the default dict_factory and
\* for any injected one
C11_AsClaimed ==
  (last.op \in {"asdict", "asdict_factory"} /\ IsMapping(orig, x)) =>
    /\ SamePairs
    /\ last.val # x

\* C11 as amended: as_dict on a mapping returns dict_factory(obj), with the same
\* key -> value pairs; for the default factory and for an injected factory that
\* is a dict type it is a new container of that type, never the input object,
\* also when the input already has that type; for an injected factory that
\* hands back its argument it is the input object itself
C11_ShallowCopy ==
  (last.op \in {"asdict", "asdict_factory"} /\ IsMapping(orig, x)) =>
    /\ SamePairs
    /\ UsedFactory # "identity" =>
         /\ last.val.ref > Len(pre)
         /\ heap[last.val.ref].cls = UsedFactory
    /\ UsedFactory = "identity" => last.val = x

\* asdict(x, dict_factory=MyDict) of a MyDict that holds a mapping
C11_Witness ==
  /\ last.op = "asdict_factory"
  /\ last.arg = "MyDict"
  /\ IsMapping(orig, x)
  /\ orig[x.ref].cls = "MyDict"
  /\ \E i \in 1..Len(Items(orig, x)) : IsMapping(orig, Items(orig, x)[i][2])
  /\ last.ok
  /\ last.val # x

(***************************************************************************)
(* Flag-qualified calls.                                                   *)
(***************************************************************************)
\* the outcome of the unflagged call op(x, ...) with the arguments of the last
\* flag-qualified call op(flag, x, ...)
Unflagged ==
  CASE last.fop = "replace"      -> replace(pre, x, Items(pre, last.arg))
    [] last.fop = "replace_fs"   -> replace_fs(pre, x, last.arg, <<>>)
    [] last.fop = "get_field"    -> get_field(pre, x, last.arg)
    [] last.fop = "fields"       -> fields(pre, x)
    [] last.fop = "field_keys"   -> field_keys(pre, x)
    [] last.fop = "field_values" -> field_values(pre, x)
    [] last.fop = "field_items"  -> field_items(pre, x)
    [] last.fop = "asdict"       -> asdict(pre, x, last.arg)
    [] last.fop = "astuple"      -> astuple(pre, x)

\* the last flag-qualified call ended as the unflagged call does: the same
\* value or the same exception, and the same objects built
SameAsUnflagged ==
  /\ last = FlagDone(last.flag, last.fop, last.arg, Unflagged)
  /\ heap = Unflagged.h

(***************************************************************************)
(* C12.  As claimed: NoFlag is the identity policy; for every operation    *)
(* (replace with named changes, replace with a nested_changes mapping,     *)
(* fields, get_field, field_keys, field_values, field_items, as_dict,      *)
(* as_tuple) and every x, op(NoFlag, x, ...) resolves to an implementation *)
(* and ends as op(x, ...) does.                                            *)
(***************************************************************************)
C12_NoFlagIdentity ==
  (last.op = "flagged" /\ last.flag = NoFlag) =>
    /\ last.err # "NotFoundLookupError" \/ Unflagged.err = "NotFoundLookupError"
    /\ SameAsUnflagged

(***************************************************************************)
(* C13.  As claimed: every flag-qualified operation (replace, fields,      *)
(* get_field, field_keys, field_values, field_items, as_dict, as_tuple)    *)
(* called with AbstractFlag itself as the leading argument fails with the  *)
(* usage error 'Do not use the AbstractFlag directly, only use             *)
(* subclasses.', for every x, and never returns a value.                   *)
(***************************************************************************)
C13_AbstractFlagUsage ==
  (last.op = "flagged" /\ last.flag = AbstractFlag) =>
    /\ ~last.ok
    /\ last.err = "ValueError"
    /\ last.msg = UsageMsg

(***************************************************************************)
(* C14.  Flags are never instantiated: constructing AbstractFlag or any    *)
(* subclass of it, with any arguments, raises FlagConstructionError whose  *)
(* message names the class being constructed, and no instance is created:  *)
(* the call builds no object, and no object of any state is a flag.        *)
(***************************************************************************)
C14_NeverConstructed ==
  /\ last.op = "construct" =>
       /\ ~last.ok
       /\ last.err = "FlagConstructionError"
       /\ last.msg = <<last.arg.cls, " flag cannot be constructed.">>
       /\ heap = pre
  /\ \A i \in 1..Len(heap) : heap[i].cls \notin Flags

\* NoFlag(1, 2) was attempted
C14_Witness ==
  /\ last.op = "construct"
  /\ last.arg.cls = NoFlag
  /\ Len(last.arg.args) = 2
  /\ ~last.ok

(***************************************************************************)
(* C15.  FilterRepr on the accessors.                                      *)
(***************************************************************************)
\* the entries of seq at the positions of the fields of x whose repr flag is
\* true, in the order of seq
VisibleOf(seq) ==
  LET fs     == fields(orig, x).val.tup
      idx    == {i \in 1..Len(fs) : fs[i].repr}
      Nth(j) == CHOOSE i \in idx : Cardinality({m \in idx : m <= i}) = j
  IN [j \in 1..Cardinality(idx) |-> seq[Nth(j)]]

\* the last call is one of the six accessors under FilterRepr, on a value whose
\* fields resolve
FilterAccessor ==
  /\ last.op = "flagged"
  /\ last.flag = FilterRepr
  /\ last.fop \in {"fields", "field_keys", "field_values", "field_items",
                   "asdict", "astuple"}
  /\ fields(orig, x).ok

\* the (name, value) pairs of the visible fields of x, the values being the
\* objects x holds
RawVisible == VisibleOf(Items(orig, x))

\* [p[2] for p in pairs]
Seconds(pairs) == [i \in 1..Len(pairs) |-> pairs[i][2]]

\* the (key, value) entries of the container the last asdict call returned
ResultEntries ==
  IF last.arg = "identity" THEN last.val.tup ELSE Items(heap, last.val)

\* the result holds exactly the entries of the unflagged result that belong to
\* the visible fields, in the unflagged order
FilterExact ==
  /\ last.ok
  /\ last.fop = "fields" => last.val.tup = VisibleOf(fields(orig, x).val.tup)
  /\ last.fop = "field_keys" => last.val.tup = VisibleOf(field_keys(orig, x).val.tup)
  /\ last.fop = "field_values" =>
       last.val.tup = VisibleOf(field_values(orig, x).val.tup)
  /\ last.fop = "field_items" =>
       last.val.tup = VisibleOf(field_items(orig, x).val.tup)
  /\ last.fop = "astuple" => last.val.tup = VisibleOf(astuple(orig, x).val.tup)
  /\ last.fop = "asdict" =>
       LET u == asdict(orig, x, "dict") IN
         /\ ResultEntries = VisibleOf(Items(u.h, u.val))
         /\ last.arg # "identity" =>
              /\ IsMapping(heap, last.val)
              /\ heap[last.val.ref].cls = last.arg

\* the names in the result are the names of the visible fields, in order
NamesAgree ==
  /\ last.fop = "fields" => Names(last.val.tup) = KeySeq(RawVisible)
  /\ last.fop = "field_keys" => last.val.tup = KeySeq(RawVisible)
  /\ last.fop = "field_items" => KeySeq(last.val.tup) = KeySeq(RawVisible)
  /\ last.fop = "asdict" => KeySeq(ResultEntries) = KeySeq(RawVisible)
  /\ last.fop \in {"field_values", "astuple"} => Len(last.val.tup) = Len(RawVisible)

\* the values in the result, position by position (fields holds none)
ResultValues ==
  CASE last.fop \in {"field_values", "astuple"} -> last.val.tup
    [] last.fop = "field_items" -> Seconds(last.val.tup)
    [] last.fop = "asdict" -> Seconds(ResultEntries)
    [] OTHER -> Seconds(RawVisible)

\* the values in the result equal the values x holds: all of them, or those
\* that hold no record
ValuesAgree(all) ==
  \A i \in 1..Len(RawVisible) :
    (all \/ RecordFree(orig, RawVisible[i][2])) =>
      PyEq(heap, ResultValues[i], RawVisible[i][2])

HiddenTargets ==
  LET fs == fields(pre, x) IN
  IF ~fs.ok THEN <<>>
  ELSE LET Targeted(f) == ~f.repr /\ f.name \in KeySet(ArgItems)
       IN Names(SelectSeq(fs.val.tup, Targeted))

C16_HiddenRejected ==
  (last.op = "flagged" /\ last.flag = FilterRepr /\ last.fop = "replace") =>
    IF HiddenTargets # <<>>
    THEN /\ ~last.ok
         /\ last.val = NoVal
         /\ last.err = "ValueError"
         /\ last.bad = {HiddenTargets[i] : i \in 1..Len(HiddenTargets)}
         /\ last.msg = <<"Fields ">> \o HiddenTargets
                         \o <<" are in kwargs but are repr=False.">>
         /\ heap = pre
    ELSE /\ SameAsUnflagged
         /\ (last.ok /\ IsDataclass(pre, x)) =>
              \A i \in 1..Len(Items(pre, x)) :
                ~ReprOf(pre[x.ref].cls, Items(pre, x)[i][1]) =>
                  Items(heap, last.val)[i] = Items(pre, x)[i]

\* both fields of the record are hidden and both are named
C16_Witness ==
  /\ last.op = "flagged"
  /\ last.flag = FilterRepr
  /\ last.fop = "replace"
  /\ Len(HiddenTargets) = 2
  /\ ~last.ok

\* a visible field is replaced next to a hidden one, which keeps its value
C16_WitnessKept ==
  /\ last.op = "flagged"
  /\ last.flag = FilterRepr
  /\ last.fop = "replace"
  /\ pre[x.ref].cls = "AH"
  /\ last.ok
  /\ ~PyEq(heap, last.val, x)

(***************************************************************************)
(* C17.  get_field under FilterRepr distinguishes its two failures: a name *)
(* (a string) that is not a field at all fails with a not-found error,     *)
(* 'Field <name> not found.' when the object has fields and the dispatch   *)
(* not-found error when it has none (its fields do not resolve); a name    *)
(* that exists but has repr false fails with a different, explicit error,  *)
(* 'Field <name> is repr=False.'; and a visible field returns the value    *)
(* the unflagged get_field returns.  Nothing is built in any case.         *)
(***************************************************************************)
\* the descriptors of x that carry the name asked for
NamedFields ==
  LET fs == fields(orig, x).val.tup
      Named(f) == f.name = last.arg
  IN SelectSeq(fs, Named)

C18_GetField ==
  last.op = "get_field" =>
    /\ heap = pre
    /\ last.ok <=> last.arg \in KeySet(Items(orig, x))
    /\ last.ok => last.val = Lookup(Items(orig, x), last.arg)
    /\ (~last.ok /\ IsMapping(orig, x)) => last.err = "KeyError"
    /\ (~last.ok /\ IsDataclass(orig, x) /\ IsStr(last.arg)) =>
         last.err = "AttributeError"

\* a key the mapping does not hold was asked for
C18_Witness ==
  /\ last.op = "get_field"
  /\ IsMapping(orig, x)
  /\ Items(orig, x) # <<>>
  /\ last.arg \notin KeySet(Items(orig, x))
  /\ last.err = "KeyError"

(***************************************************************************)
(* C19.  Shape resolution.                                                 *)
(***************************************************************************)
\* the function the last call named and the shapes of its positional arguments
CallFn ==
  LET op == IF last.op = "flagged" THEN last.fop ELSE last.op IN
  IF op = "replace_fs" THEN "replace"
  ELSE IF op = "asdict_factory" THEN "asdict"
  ELSE op

CallShapes ==
  LET op == IF last.op = "flagged" THEN last.fop ELSE last.op IN
  (IF last.op = "flagged" THEN <<last.flag>> ELSE <<>>)
    \o <<ShapeOf(pre, x)>>
    \o (IF op = "get_field" THEN <<KeyShape(last.arg)>>
        ELSE IF op = "replace_fs" THEN <<ShapeOf(pre, last.arg)>>
        ELSE <<>>)

\* the further argument of the last call
CallArg == IF last.op = "asdict" THEN "dict" ELSE last.arg

\* the last call ended as implementation impl ends on its arguments; a lookup
\* error stands for itself
RanAs(impl) ==
  LET r == Invoke(impl, pre, last.flag, x, CallArg) IN
    /\ heap = r.h
    /\ last = IF last.op = "flagged"
              THEN FlagDone(last.flag, last.fop, last.arg, r)
              ELSE Done(last.op, last.arg, r)

\* the last call is a call of a dispatched operation
Dispatched ==
  last.op \in {"flagged", "replace", "replace_fs", "get_field", "fields",
               "field_keys", "field_values", "field_items", "asdict",
               "asdict_factory", "astuple"}

\* C19 as claimed: the implementation that runs is the most specific one
\* matching the argument shapes; when the arguments match two registered
\* implementations with no specificity order between them the call fails with
\* an ambiguous-match error, and when none matches with a not-found error
C19_AsClaimed ==
  Dispatched =>
    LET candidates == Candidates(CallFn, CallShapes) IN
      /\ candidates = {} => RanAs("NotFoundLookupError")
      /\ Cardinality(candidates) = 1 => RanAs((CHOOSE m \in candidates : TRUE).impl)
      /\ Cardinality(candidates) > 1 => RanAs("AmbiguousLookupError")

\* C19 as amended: the implementation that runs is the most specific one
\* matching the argument shapes; when several match with no specificity order
\* between them, the one registered with the highest precedence runs, and the
\* call fails with an ambiguous-match error only if that precedence is shared;
\* when none matches it fails with a not-found error
C19_Resolution ==
  Dispatched => RanAs(resolve_method(CallFn, CallShapes))

\* get_field(m, "a") on a mapping matches both the mapping implementation
\* (Mapping[Hashable, Any], Hashable) and the fallback (Any, str), neither more
\* specific than the other, and returns the value under key "a"
C19_Witness ==
  /\ last.op = "get_field"
  /\ IsMapping(orig, x)
  /\ last.arg = "a"
  /\ Cardinality(Candidates(CallFn, CallShapes)) = 2
  /\ last.ok
  /\ last.val = Lookup(Items(orig, x), "a")

(***************************************************************************)
(* C20.  The Optional converter passes None through and converts           *)
(* everything else: Optional(c)(None) is None without a call of c, and for *)
(* every other value v, falsy ones included, Optional(c)(v) ends as c(v)   *)
(* does, value or exception, with c called exactly once, on v.             *)
(***************************************************************************)
C20_Optional ==
  last.op = "Optional" =>
    IF last.arg.value = PyNone
    THEN /\ last.ok
         /\ last.val = PyNone
         /\ last.calls = <<>>
    ELSE LET r == call_converter(orig, last.arg.converter, last.arg.value) IN
           /\ last.calls = <<[conv |-> last.arg.converter, arg |-> last.arg.value]>>
           /\ last.ok = r.ok
           /\ last.val = r.val
           /\ last.err = r.err

\* Optional(int)(0.0) is 0: a falsy value is converted
C20_Witness ==
  /\ last.op = "Optional"
  /\ last.arg.converter = "int"
  /\ last.arg.value = PyFloat(0)
  /\ last.ok
  /\ last.val = IntV(0)
  /\ Len(last.calls) = 1

(***************************************************************************)
(* C21.  The Unless converter converts exactly the values that are not of  *)
(* the pass-through types: Unless(T, c)(v) returns v itself, with no call  *)
(* of c, when v is an instance of T or of a type in the tuple T, and       *)
(* otherwise ends as c(v) does, value or exception, with c called once,    *)
(* on v.                                                                   *)
(***************************************************************************)
C21_Unless ==
  last.op = "Unless" =>
    IF isinstance(last.arg.value, last.arg.types)
    THEN /\ last.ok
         /\ last.val = last.arg.value
         /\ last.calls = <<>>
    ELSE LET r == call_converter(orig, last.arg.converter, last.arg.value) IN
           /\ last.calls = <<[conv |-> last.arg.converter, arg |-> last.arg.value]>>
           /\ last.ok = r.ok
           /\ last.val = r.val
           /\ last.err = r.err

\* Unless(int, float)("1.5") is 1.5 and Unless((int, str), float) would have
\* kept the str: here the str is not of the pass-through type and is converted
C21_Witness ==
  /\ last.op = "Unless"
  /\ last.arg.types = [type |-> "int"]
  /\ last.arg.converter = "float"
  /\ last.arg.value = PyStr("1.5")
  /\ last.ok
  /\ last.val = PyFloat(15)

\* Unless((int, str), float)("1") is "1": a member of the tuple passes through
C21_WitnessPass ==
  /\ last.op = "Unless"
  /\ last.arg.types = [types |-> <<"int", "str">>]
  /\ last.arg.value = PyStr("1")
  /\ last.ok
  /\ last.val = PyStr("1")
  /\ last.calls = <<>>

(***************************************************************************)
(* C22.  field() validates its converter before it builds the field, and   *)
(* never writes to the caller's metadata mapping.  In this order: a        *)
(* converter that is neither None nor callable fails with the TypeError    *)
(* 'converter must be callable'; a callable converter together with a      *)
(* metadata mapping that has the key 'converter' fails with a ValueError;  *)
(* otherwise, where dataclasses.field accepts the remaining arguments, a   *)
(* callable converter gives a field whose metadata is a new mapping: the   *)
(* caller's entries and 'converter' bound to that same converter; and      *)
(* converter None gives a field whose metadata is the caller's mapping     *)
(* itself, read-only, with no key added (the empty metadata if none was    *)
(* given).                                                                 *)
(***************************************************************************)
C22_FieldValidates ==
  last.op = "field" =>
    LET c == last.arg.converter
        m == last.arg.metadata
        kw == last.arg.kwargs
        given == IF m = PyNone THEN <<>> ELSE Items(pre, m)
    IN /\ \A i \in 1..Len(pre) : heap[i] = pre[i]
       /\ IF c # PyNone /\ ~callable(c)
          THEN /\ ~last.ok
               /\ last.err = "TypeError"
               /\ last.msg[1] = "converter must be callable, got "
          ELSE IF c # PyNone /\ "converter" \in KeySet(given)
          THEN /\ ~last.ok
               /\ last.err = "ValueError"
               /\ last.msg =
                    <<"cannot specify 'converter' in metadata and as a keyword argument.">>
          ELSE IF kw.default # MISSING /\ kw.default_factory # MISSING
          THEN ~last.ok
          ELSE /\ last.ok
               /\ last.val.default = kw.default
               /\ IF c # PyNone
                  THEN /\ last.val.metadata.proxy # m
                       /\ last.val.metadata.proxy.ref > Len(pre)
                       /\ ProxyItems(heap, last.val.metadata) = Put(given, "converter", c)
                  ELSE /\ last.val.metadata =
                            (IF m = PyNone THEN [proxy |-> NoVal] ELSE [proxy |-> m])
                       /\ ProxyItems(heap, last.val.metadata) = given

\* field(converter=Optional(int), metadata={"unit": 1}) holds unit and converter,
\* and the caller's mapping still holds unit alone
C22_Witness ==
  /\ last.op = "field"
  /\ last.ok
  /\ last.arg.converter = [optional |-> "int"]
  /\ last.arg.metadata # PyNone
  /\ Items(heap, last.arg.metadata) = <<<<"unit", IntV(1)>>>>
  /\ ProxyItems(heap, last.val.metadata) =
       <<<<"unit", IntV(1)>>, <<"converter", [optional |-> "int"]>>>>

\* field(converter=1) is rejected
C22_WitnessNonCallable ==
  /\ last.op = "field"
  /\ last.arg.converter = IntV(1)
  /\ last.err = "TypeError"

\* field(converter=None, metadata={"unit": 1, "converter": float}) passes the
\* metadata through
C22_WitnessNone ==
  /\ last.op = "field"
  /\ last.ok
  /\ last.arg.converter = PyNone
  /\ last.arg.metadata # PyNone
  /\ last.val.metadata = [proxy |-> last.arg.metadata]
  /\ "converter" \in KeySet(ProxyItems(heap, last.val.metadata))

\* the last call constructed an instance of a converter-enabled dataclass
\* through the converting entry point, with arguments that bind and with
\* every mandatory field supplied
Converting ==
  /\ last.op = "new"
  /\ ~last.arg.skip
  /\ bind_partial(pre, last.arg.cls.fields, last.arg.args, last.arg.kwargs).ok
  /\ \A i \in 1..Len(last.arg.cls.fields) :
       \/ i <= Len(last.arg.args)
       \/ last.arg.cls.fields[i].name \in KeySet(last.arg.kwargs)
       \/ SigDefault(last.arg.cls.fields[i]) # MISSING

\* the value field i of the last construction starts from: the positional
\* argument, the keyword argument, or the declared default
FieldValue(i) ==
  LET f == last.arg.cls.fields[i] IN
    IF i <= Len(last.arg.args) THEN last.arg.args[i]
    ELSE IF f.name \in KeySet(last.arg.kwargs) THEN Lookup(last.arg.kwargs, f.name)
    ELSE IF f.default # MISSING THEN f.default
    ELSE call_factory(f.default_factory)

RECURSIVE ExpectedCalls(_)
\* one call per field that has a converter, from field i on, in field order,
\* each on the value the field starts from
ExpectedCalls(i) ==
  IF i > Len(last.arg.cls.fields) THEN <<>>
  ELSE LET f == last.arg.cls.fields[i]
           c == metadata_get_converter(pre, f)
       IN (IF c = PyNone THEN <<>> ELSE <<[field |-> f.name, conv |-> c, arg |-> FieldValue(i)]>>)
          \o ExpectedCalls(i + 1)

\* the converter calls of the last construction are the expected ones, each
\* once, up to the first that raised; where none raised the instance stores,
\* for every field, the converted value, or the value itself if the field has
\* no converter, and the class attributes are as declared
ConvertsOnce(fieldset) ==
  /\ IsPrefix(last.calls, ExpectedCalls(1))
  /\ IF \E i \in 1..Len(last.calls) :
          ~apply_converter(pre, last.calls[i].conv, last.calls[i].arg).ok
     THEN /\ ~last.ok
          /\ last.err = apply_converter(pre, last.calls[Len(last.calls)].conv,
                                        last.calls[Len(last.calls)].arg).err
     ELSE /\ last.ok
          /\ last.calls = ExpectedCalls(1)
          /\ \A i \in fieldset :
               LET f == last.arg.cls.fields[i]
                   c == metadata_get_converter(pre, f)
               IN getattr(heap, last.arg.cls, last.val, f.name) =
                    (IF c = PyNone THEN FieldValue(i)
                     ELSE apply_converter(pre, c, FieldValue(i)).val)
          /\ \A j \in 1..Len(last.arg.cls.attrs) :
               getattr(heap, last.arg.cls, last.val, last.arg.cls.attrs[j][1]) =
                 last.arg.cls.attrs[j][2]

(***************************************************************************)
(* C23.  As claimed: constructing an instance of a converter-enabled       *)
(* dataclass applies each field's converter exactly once to that field's   *)
(* value before the generated __init__ stores it, whether the value was    *)
(* passed positionally, by keyword, or comes from the field's declared     *)
(* default; fields without a converter and class attributes that are not   *)
(* fields are stored unchanged.                                            *)
(***************************************************************************)
C23_ConvertsOnce ==
  Converting => ConvertsOnce(1..Len(last.arg.cls.fields))

\* the same, for constructions in which no field takes its value from a
\* default_factory
C23_ExceptFactory ==
  (/\ Converting
   /\ \A i \in 1..Len(last.arg.cls.fields) :
        \/ last.arg.cls.fields[i].default_factory = MISSING
        \/ i <= Len(last.arg.args)
        \/ last.arg.cls.fields[i].name \in KeySet(last.arg.kwargs))
  => ConvertsOnce(1..Len(last.arg.cls.fields))

\* Pair("1", b="1") converts both fields
C23_WitnessBoth ==
  /\ Converting
  /\ last.ok
  /\ Len(last.calls) = 2
  /\ Items(heap, last.val) = <<<<"attr", IntV(1)>>, <<"b", IntV(1)>>>>

(***************************************************************************)
(* C24.  The no-convert entry point bypasses every converter: a            *)
(* construction with _skip_convert=True calls no converter and ends as the *)
(* generated __init__ does on the arguments as given; where it succeeds    *)
(* the instance stores every argument exactly as passed and, for a field   *)
(* that was not passed, its declared default, while the same call without  *)
(* the flag calls the converters of the class.                             *)
(***************************************************************************)
C24_SkipConvert ==
  (last.op = "new" /\ last.arg.skip) =>
    LET cls == last.arg.cls
        d == dataclass_init(pre, cls, last.arg.args, last.arg.kwargs)
        r == converter_init(pre, cls, last.arg.args, last.arg.kwargs, FALSE)
    IN /\ last.calls = <<>>
       /\ last.ok = d.ok
       /\ last.err = d.err
       /\ last.msg = d.msg
       /\ last.ok =>
            /\ \A i \in 1..Len(cls.fields) :
                 getattr(heap, cls, last.val, cls.fields[i].name) = FieldValue(i)
            /\ (\E i \in 1..Len(cls.fields) :
                  metadata_get_converter(pre, cls.fields[i]) # PyNone)
                => r.calls # <<>>

\* MyClass("1", _skip_convert=True).attr is "1", and MyClass("1").attr is 1
C24_Witness ==
  /\ last.op = "new"
  /\ last.arg.skip
  /\ last.arg.cls.__name__ = "MyClass"
  /\ last.arg.args = <<PyStr("1")>>
  /\ last.ok
  /\ Items(heap, last.val) = <<<<"attr", PyStr("1")>>>>
  /\ LET r == converter_init(pre, last.arg.cls, last.arg.args, last.arg.kwargs, FALSE)
     IN r.ok /\ Items(r.h, r.val) = <<<<"attr", IntV(1)>>>>

\* the mandatory fields (no default, no default_factory) the last construction
\* was given no argument for
MissingMandatory ==
  {i \in 1..Len(last.arg.cls.fields) :
     /\ SigDefault(last.arg.cls.fields[i]) = MISSING
     /\ i > Len(last.arg.args)
     /\ last.arg.cls.fields[i].name \notin KeySet(last.arg.kwargs)}

\* a converting construction that leaves a mandatory field out
LeavesOut ==
  /\ last.op = "new"
  /\ ~last.arg.skip
  /\ MissingMandatory # {}

\* no converter was called for a field that was left out, and no instance was
\* built
SkippedAndFailed ==
  /\ \A i \in MissingMandatory, j \in 1..Len(last.calls) :
       last.calls[j].field # last.arg.cls.fields[i].name
  /\ ~last.ok
  /\ heap = pre

\* the error of the generated __init__ for the fields left out
MissingError ==
  /\ last.err = "TypeError"
  /\ last.msg = <<"__init__() missing required positional argument">> \o
                SelectSeq([i \in 1..Len(last.arg.cls.fields) |->
                             last.arg.cls.fields[i].name],
                          LAMBDA k : \E i \in MissingMandatory :
                                       last.arg.cls.fields[i].name = k)

(***************************************************************************)
(* C25.  As claimed: when a mandatory field of a converter-enabled         *)
(* dataclass is not supplied, the conversion step skips that field without *)
(* calling its converter, construction fails with the generated            *)
(* __init__'s missing-required-argument TypeError, and no instance is      *)
(* produced.                                                               *)
(***************************************************************************)
C25_AsClaimed ==
  LeavesOut => (SkippedAndFailed /\ MissingError)

(***************************************************************************)
(* C25.  When a mandatory field is not supplied, the conversion step skips *)
(* that field without calling its converter and no instance is produced.   *)
(* The construction fails with the first error met: the TypeError of the   *)
(* argument binding if the arguments do not bind, else the exception of    *)
(* the first converter of another field that raises, else the generated    *)
(* __init__'s missing-required-argument TypeError.                         *)
(***************************************************************************)
C25_MissingMandatory ==
  LeavesOut =>
    LET b == bind_partial(pre, last.arg.cls.fields, last.arg.args, last.arg.kwargs)
        n == Len(last.calls)
    IN /\ SkippedAndFailed
       /\ IF ~b.ok
          THEN last.err = b.err /\ last.msg = b.msg /\ n = 0
          ELSE IF n > 0 /\ ~apply_converter(pre, last.calls[n].conv, last.calls[n].arg).ok
          THEN last.err = apply_converter(pre, last.calls[n].conv, last.calls[n].arg).err
          ELSE MissingError

\* Pair(b="1"): b is converted, attr is skipped, and the generated __init__
\* reports attr missing
C25_Witness ==
  /\ LeavesOut
  /\ last.arg.cls.__name__ = "Pair"
  /\ last.calls = <<[field |-> "b", conv |-> [fn |-> "int"], arg |-> PyStr("1")]>>
  /\ MissingError
  /\ last.msg[2] = "attr"

\* s in reverse order
Reversed(s) == [i \in 1..Len(s) |-> s[Len(s) + 1 - i]]

\* the heap of the last call with the entries of its nested_changes mapping in
\* reverse iteration order
TopReversed == [pre EXCEPT ![last.arg.ref].items = Reversed(@)]

\* the same with every mapping of the nested_changes, at every depth, reversed
AllReversed ==
  [i \in 1..Len(pre) |->
     IF i > Len(orig) /\ pre[i].kind = "dict"
     THEN [pre[i] EXCEPT !.items = Reversed(@)]
     ELSE pre[i]]

\* replace(x, nested_changes) on heap h ends as the last call did: both fail,
\* or both return, and equal values
SameResult(h) ==
  LET r == replace_fs(h, x, last.arg, <<>>) IN
    /\ last.ok = r.ok
    /\ last.ok => Deep(heap, last.val) = Deep(r.h, r.val)

(***************************************************************************)
(* C26.  The result of recursive replace does not depend on the order in   *)
(* which the nested_changes entries are processed: every recursive call    *)
(* made for an entry is made on the value the original obj holds at that   *)
(* key, and the same key-value pairs in the reverse iteration order, at    *)
(* the top level or at every level, give an equal result, or fail as well. *)
(***************************************************************************)
C26_OrderIndependent ==
  last.op = "replace_fs" =>
    /\ \A i \in 1..Len(last.calls) :
         /\ ValAt(pre, x, last.calls[i].path) = last.calls[i].obj
         /\ ValAt(pre, last.arg, last.calls[i].path) = last.calls[i].fs
    /\ SameResult(TopReversed)
    /\ SameResult(AllReversed)

\* two entries, both merged into the fields of x, and the reverse order resolves
\* them the other way round
C26_Witness ==
  /\ last.op = "replace_fs"
  /\ last.ok
  /\ Len(ArgItems) = 2
  /\ Len(last.calls) = 2
  /\ ~PyEq(heap, x, last.val)
  /\ replace_fs(TopReversed, x, last.arg, <<>>).calls = Reversed(last.calls)

RECURSIVE NestDepth(_, _)
\* the nesting depth of a nested_changes value: 0 for a value that is not an
\* unwrapped mapping, else one more than the deepest of its entries
NestDepth(h, v) ==
  IF ~IsMerge(h, v) THEN 0
  ELSE LET ds == {NestDepth(h, Items(h, v)[i][2]) : i \in 1..Len(Items(h, v))} \cup {0}
       IN 1 + (CHOOSE d \in ds : \A e \in ds : e <= d)

RECURSIVE NestSize(_, _, _)
\* the number of entries of a nested_changes value, counted at every depth,
\* from entry i on
NestSize(h, v, i) ==
  IF ~IsMerge(h, v) \/ i > Len(Items(h, v)) THEN 0
  ELSE 1 + NestSize(h, Items(h, v)[i][2], 1) + NestSize(h, v, i + 1)

\* all but the last element of a non-empty path
Front(p) == SubSeq(p, 1, Len(p) - 1)

(***************************************************************************)
(* C27.  Recursive replace terminates on every finite nested_changes: each *)
(* replace call it makes is for one mapping-valued, unwrapped entry of the *)
(* changes of the call that made it, no entry gets two calls, the changes  *)
(* of a call are strictly smaller than those of its caller, and the depth  *)
(* of a call is below the nesting depth of nested_changes; where the whole *)
(* call returns, exactly the mapping-valued unwrapped entries were         *)
(* recursed into, so that every branch ended at a non-mapping value, a     *)
(* leaf wrapper or an empty mapping.                                       *)
(***************************************************************************)
C27_Terminates ==
  last.op = "replace_fs" =>
    /\ \A i \in 1..Len(AllCalls) :
         LET c == AllCalls[i] IN
           /\ c.fs = ValAt(pre, last.arg, c.path)
           /\ IsMerge(pre, c.fs)
           /\ Len(c.path) < NestDepth(pre, last.arg)
           /\ \A j \in 1..Len(AllCalls) : AllCalls[j].path = c.path => j = i
           /\ i > 1 =>
                \E j \in 1..(i - 1) :
                  /\ AllCalls[j].path = Front(c.path)
                  /\ NestSize(pre, c.fs, 1) < NestSize(pre, AllCalls[j].fs, 1)
    /\ last.ok =>
         \A i \in 1..Len(AllCalls) :
           \A n \in 1..Len(Items(pre, AllCalls[i].fs)) :
             LET e == Items(pre, AllCalls[i].fs)[n] IN
               IsMerge(pre, e[2]) <=>
                 \E j \in 1..Len(AllCalls) :
                   AllCalls[j].path = Append(AllCalls[i].path, e[1])

\* a call two levels down, on the innermost mapping of a nested_changes of
\* nesting depth three, after which the whole call returned
C27_Witness ==
  /\ last.op = "replace_fs"
  /\ last.ok
  /\ NestDepth(pre, last.arg) = 3
  /\ \E i \in 1..Len(last.calls) : Len(last.calls[i].path) = 2

\* the implementations of the shape modules of the package
ShapeModules ==
  register_base \cup register_dataclass \cup register_mapping \cup register_copyreplace

(***************************************************************************)
(* C28.  As claimed: registration precedes use; when an accessor or a      *)
(* replace has been called, the implementations of every shape module      *)
(* (base, record, mapping and the copy-with-changes shape) are in the      *)
(* dispatch registry, so that a replace of an object of the                *)
(* copy-with-changes shape resolves to that shape's implementation.        *)
(***************************************************************************)
C28_RegisteredBeforeUse ==
  Dispatched =>
    /\ ShapeModules \subseteq Registry
    /\ resolve_method("replace", <<"copyreplace">>) = "copyreplace_replace"
    /\ resolve_method("replace", <<"copyreplace", "strmapping">>) = "copyreplace_replace_fs"

\* the same for the modules the package does import
C28_ImportedRegistered ==
  Dispatched =>
    (flag_compat \cup register_base \cup register_dataclass \cup register_mapping)
      \subseteq Registry

\* the flag-qualified operations that have an implementation for
\* type[AbstractFlag]
AbstractFlagOps ==
  {"replace", "fields", "field_keys", "field_values", "field_items", "asdict",
   "astuple"}

(***************************************************************************)
(* C29.  A subclass of AbstractFlag that has no implementation registered  *)
(* for it resolves replace (with named changes), fields, field_keys,       *)
(* field_values, field_items, asdict and astuple to the implementation for *)
(* type[AbstractFlag]: for every x the call raises the usage error 'Do not *)
(* use the AbstractFlag directly, only use subclasses.', not the dispatch   *)
(* not-found error, and returns nothing, whatever the unflagged call does. *)
(***************************************************************************)
C29_SubclassFallsBack ==
  (last.op = "flagged" /\ last.flag = MyFlag /\ last.fop \in AbstractFlagOps) =>
    /\ resolve_method(CallFn, CallShapes) =
         (CHOOSE m \in flag_compat :
            m.fn = last.fop /\ m.types = <<"type[AbstractFlag]", "Any">>).impl
    /\ ~last.ok
    /\ last.val = NoVal
    /\ last.err = "ValueError"
    /\ last.msg = UsageMsg
    /\ heap = pre

\* fields(MyFlag, x) on an x whose unflagged fields(x) returns
C29_Witness ==
  /\ last.op = "flagged"
  /\ last.flag = MyFlag
  /\ last.fop = "fields"
  /\ last.msg = UsageMsg
  /\ fields(orig, x).ok

\* the last call is a FilterRepr-qualified accessor, get_field or replace with
\* named changes, on a mapping
FilterOnMapping ==
  /\ last.op = "flagged"
  /\ last.flag = FilterRepr
  /\ last.fop # "replace_fs"
  /\ IsMapping(orig, x)

\* the (key, value) entries of the container outcome r of an asdict call holds
EntriesOf(r) ==
  IF IsRef(r.val) THEN Items(r.h, r.val) ELSE r.val.tup

\* the last FilterRepr-qualified call agrees with the unflagged call: both
\* return, the same names and values in the same order (for replace: equal
\* mappings), or both fail; for get_field, on a present key, both return the
\* value
AgreesWithUnflagged ==
  LET u == Unflagged IN
    CASE last.fop = "get_field" ->
           last.arg \in KeySet(Items(orig, x)) =>
             (last.ok /\ u.ok /\ last.val = u.val)
      [] last.fop = "asdict" ->
           /\ last.ok = u.ok
           /\ last.ok => ResultEntries = EntriesOf(u)
      [] last.fop = "replace" ->
           /\ last.ok = u.ok
           /\ last.ok => Deep(heap, last.val) = Deep(u.h, u.val)
      [] OTHER ->
           /\ last.ok = u.ok
           /\ last.ok => last.val = u.val

(***************************************************************************)
(* C30.  As claimed: for a mapping FilterRepr is the identity; for every   *)
(* mapping m the FilterRepr-qualified fields, field_keys, field_values,    *)
(* field_items, asdict and astuple contain the same names and values in    *)
(* the same order as the unflagged results, get_field(FilterRepr, m, k)    *)
(* equals get_field(m, k) for every present key, and                       *)
(* replace(FilterRepr, m, **c) equals replace(m, **c).                     *)
(***************************************************************************)
C30_MappingIdentity ==
  FilterOnMapping => AgreesWithUnflagged

\* the same for the mappings fields() accepts (those whose keys pass for str)
\* and str names
C30_StrKeyed ==
  (/\ FilterOnMapping
   /\ fields(orig, x).ok
   /\ last.fop = "get_field" => IsStr(last.arg))
  => AgreesWithUnflagged

====
